---- MODULE Spec2Model ----
(***************************************************************************)
(* Model of the gh-bot extension of dyreby/agent-stuff: the credential     *)
(* resolver (config.ts), the token issuer (auth.ts) and the two gh-bot     *)
(* front ends of index.ts (bash spawnHook variant and gh tools variant).   *)
(* JavaScript strings are sequences of one-character strings.              *)
(***************************************************************************)
EXTENDS Integers, Sequences, FiniteSets, TLC

\* const x = v; ...F(x)...: v is evaluated once and F reads the value.
Bind(v, F(_)) == CHOOSE y \in {F(x) : x \in {v}} : TRUE

(***************************************************************************)
(* Text helpers: the JavaScript string operations the handlers use.        *)
(***************************************************************************)

\* The printable ASCII characters, code 32 (space) to 126 (~), in order
\* (the double quote, the backslash and the backtick are written by name).
Printable ==
  << " ", "!", "DQUOTE", "#", "$", "%", "&", "'", "(", ")", "*", "+", ",", "-", ".", "/",
     "0", "1", "2", "3", "4", "5", "6", "7", "8", "9", ":", ";", "<", "=", ">", "?",
     "@", "A", "B", "C", "D", "E", "F", "G", "H", "I", "J", "K", "L", "M", "N", "O",
     "P", "Q", "R", "S", "T", "U", "V", "W", "X", "Y", "Z", "[", "BACKSLASH", "]", "^", "_",
     "BACKTICK", "a", "b", "c", "d", "e", "f", "g", "h", "i", "j", "k", "l", "m", "n", "o",
     "p", "q", "r", "s", "t", "u", "v", "w", "x", "y", "z", "{", "|", "}", "~" >>

IndexOf(c, table) ==
  IF \E i \in 1..Len(table) : table[i] = c
    THEN CHOOSE i \in 1..Len(table) : table[i] = c
    ELSE 0

CharSet == {Printable[i] : i \in 1..Len(Printable)} \cup {"\n", "\t"}

OrdTable ==
  [c \in CharSet |->
     IF c = "\n" THEN 10 ELSE IF c = "\t" THEN 9 ELSE 31 + IndexOf(c, Printable)]

\* UTF-8 byte of a character (the model's alphabet is ASCII: one byte each).
Ord(c) == OrdTable[c]

\* Buffer.toString("utf-8") of one byte; "?" stands for U+FFFD on a byte
\* that is no ASCII character.
Chr(b) ==
  IF b = 10 THEN "\n"
  ELSE IF b = 9 THEN "\t"
  ELSE IF b >= 32 /\ b <= 126 THEN Printable[b - 31]
  ELSE "?"

IsUpper(c) == Ord(c) >= 65 /\ Ord(c) <= 90

LowerChar(c) == IF IsUpper(c) THEN Chr(Ord(c) + 32) ELSE c

ToLower(s) == [i \in 1..Len(s) |-> LowerChar(s[i])]

IsSpace(c) == c \in {" ", "\n", "\t"}

IsDigit(c) == Ord(c) >= 48 /\ Ord(c) <= 57

\* String.prototype.includes
Includes(s, pat) ==
  \E i \in 0..(Len(s) - Len(pat)) :
    \A j \in 1..Len(pat) : s[i + j] = pat[j]

RECURSIVE TrimStart(_)
TrimStart(s) ==
  IF s # <<>> /\ IsSpace(Head(s)) THEN TrimStart(Tail(s)) ELSE s

RECURSIVE TrimEnd(_)
TrimEnd(s) ==
  IF s # <<>> /\ IsSpace(s[Len(s)]) THEN TrimEnd(SubSeq(s, 1, Len(s) - 1)) ELSE s

Trim(s) == TrimEnd(TrimStart(s))

\* The leading run of decimal digits of s.
RECURSIVE DigitPrefix(_)
DigitPrefix(s) ==
  IF s # <<>> /\ IsDigit(Head(s)) THEN <<Head(s)>> \o DigitPrefix(Tail(s)) ELSE <<>>

RECURSIVE DigitsValue(_)
DigitsValue(d) ==
  IF d = <<>> THEN 0
  ELSE DigitsValue(SubSeq(d, 1, Len(d) - 1)) * 10 + (Ord(d[Len(d)]) - 48)

\* parseInt(s, 10): leading white space skipped, an optional sign, then the
\* longest run of digits; NaN when there is none.
ParseInt(s) ==
  Bind(TrimStart(s), LAMBDA t :
  Bind(t # <<>> /\ Head(t) = "-", LAMBDA neg :
  Bind(IF t # <<>> /\ Head(t) \in {"-", "+"} THEN Tail(t) ELSE t, LAMBDA body :
  Bind(DigitPrefix(body), LAMBDA ds :
    IF ds = <<>> THEN [nan |-> TRUE, n |-> 0]
    ELSE [nan |-> FALSE, n |-> IF neg THEN 0 - DigitsValue(ds) ELSE DigitsValue(ds)]))))

(***************************************************************************)
(* Base64, as Buffer.from(s, "utf-8").toString("base64") writes it and     *)
(* Buffer.from(s, "base64").toString("utf-8") reads it.                    *)
(***************************************************************************)

B64Chars ==
  << "A", "B", "C", "D", "E", "F", "G", "H", "I", "J", "K", "L", "M", "N", "O", "P",
     "Q", "R", "S", "T", "U", "V", "W", "X", "Y", "Z", "a", "b", "c", "d", "e", "f",
     "g", "h", "i", "j", "k", "l", "m", "n", "o", "p", "q", "r", "s", "t", "u", "v",
     "w", "x", "y", "z", "0", "1", "2", "3", "4", "5", "6", "7", "8", "9", "+", "/" >>

B64Index == [c \in CharSet |-> IndexOf(c, B64Chars)]

Utf8Bytes(s) == [i \in 1..Len(s) |-> Ord(s[i])]

Utf8String(bytes) == [i \in 1..Len(bytes) |-> Chr(bytes[i])]

RECURSIVE Base64EncodeBytes(_)
Base64EncodeBytes(b) ==
  IF Len(b) = 0 THEN <<>>
  ELSE IF Len(b) = 1 THEN
    << B64Chars[(b[1] \div 4) + 1], B64Chars[((b[1] % 4) * 16) + 1], "=", "=" >>
  ELSE IF Len(b) = 2 THEN
    << B64Chars[(b[1] \div 4) + 1],
       B64Chars[((b[1] % 4) * 16 + (b[2] \div 16)) + 1],
       B64Chars[((b[2] % 16) * 4) + 1], "=" >>
  ELSE
    << B64Chars[(b[1] \div 4) + 1],
       B64Chars[((b[1] % 4) * 16 + (b[2] \div 16)) + 1],
       B64Chars[((b[2] % 16) * 4 + (b[3] \div 64)) + 1],
       B64Chars[(b[3] % 64) + 1] >> \o Base64EncodeBytes(SubSeq(b, 4, Len(b)))

\* The sextets of a base64 text: characters outside the alphabet are
\* skipped and reading stops at the first "=".
RECURSIVE Sextets(_)
Sextets(s) ==
  IF s = <<>> \/ Head(s) = "=" THEN <<>>
  ELSE IF B64Index[Head(s)] = 0 THEN Sextets(Tail(s))
  ELSE <<B64Index[Head(s)] - 1>> \o Sextets(Tail(s))

RECURSIVE SextetsToBytes(_)
SextetsToBytes(x) ==
  IF Len(x) < 2 THEN <<>>
  ELSE IF Len(x) = 2 THEN << x[1] * 4 + (x[2] \div 16) >>
  ELSE IF Len(x) = 3 THEN
    << x[1] * 4 + (x[2] \div 16), (x[2] % 16) * 16 + (x[3] \div 4) >>
  ELSE
    << x[1] * 4 + (x[2] \div 16), (x[2] % 16) * 16 + (x[3] \div 4),
       (x[3] % 4) * 64 + x[4] >> \o SextetsToBytes(SubSeq(x, 5, Len(x)))

Base64Encode(s) == Base64EncodeBytes(Utf8Bytes(s))

Base64Decode(s) == Utf8String(SextetsToBytes(Sextets(s)))

(***************************************************************************)
(* Credential stores: process.env, ~/.config/gh-bot/config.json and the    *)
(* macOS Keychain entry.                                                   *)
(***************************************************************************)

\* An environment variable: unset (undefined) or set to a string.
Unset == [set |-> FALSE, v |-> <<>>]
EnvStr(s) == [set |-> TRUE, v |-> s]

\* JavaScript truthiness of process.env[X]: undefined and "" are falsy.
Truthy(e) == e.set /\ e.v # <<>>

\* An optional string field of GhBotConfig.
Undef == [def |-> FALSE, v |-> <<>>]
OptStr(s) == [def |-> TRUE, v |-> s]
EnvOpt(e) == IF e.set THEN OptStr(e.v) ELSE Undef

\* An optional number field of GhBotConfig.
NoNum == [def |-> FALSE, n |-> 0]
OptNum(n) == [def |-> TRUE, n |-> n]

\* A JSON value of the config file, as far as readConfig looks at it.
JUndef == [t |-> "undefined", n |-> 0, s |-> <<>>]
JNum(n) == [t |-> "number", n |-> n, s |-> <<>>]
JStr(s) == [t |-> "string", n |-> 0, s |-> s]

\* The config file: missing, not JSON, the JSON text null, or a JSON object.
FileMissing ==
  [kind |-> "missing", appId |-> JUndef, installationId |-> JUndef,
   human |-> JUndef, agent |-> JUndef, repo |-> JUndef]
FileGarbage == [FileMissing EXCEPT !.kind = "garbage"]
FileJsonNull == [FileMissing EXCEPT !.kind = "null"]
FileObj(appId, installationId, human, agent, repo) ==
  [kind |-> "object", appId |-> appId, installationId |-> installationId,
   human |-> human, agent |-> agent, repo |-> repo]

\* The Keychain entry gh-bot/private-key: absent, or the stored password.
KeychainEmpty == [present |-> FALSE, secret |-> <<>>]
KeychainWith(secret) == [present |-> TRUE, secret |-> secret]

\* What readConfig yields: null, a GhBotConfig, or a raised exception.
\* src records which store the returned identity was read from.
NullConfig ==
  [kind |-> "null", src |-> "none", appId |-> 0, installationId |-> NoNum,
   human |-> Undef, agent |-> Undef, repo |-> Undef]
ThrownConfig == [NullConfig EXCEPT !.kind = "throw"]

\* The try body of readConfig's config-file branch: fs.readFile rejects on
\* a missing file, JSON.parse throws on text that is not JSON, and reading
\* .appId of the parsed value null throws.
ReadConfigFileTry(f) ==
  IF f.kind \in {"missing", "garbage", "null"} THEN ThrownConfig
  ELSE IF f.appId.t # "number" THEN NullConfig
  ELSE [kind |-> "config", src |-> "file",
        appId |-> f.appId.n,
        installationId |->
          IF f.installationId.t = "number" THEN OptNum(f.installationId.n) ELSE NoNum,
        human |-> IF f.human.t = "string" THEN OptStr(f.human.s) ELSE Undef,
        agent |-> IF f.agent.t = "string" THEN OptStr(f.agent.s) ELSE Undef,
        repo |-> IF f.repo.t = "string" THEN OptStr(f.repo.s) ELSE Undef]

\* Faulty variant: the catch block is missing, the exception escapes.
ReadConfigFileNoCatch(f) == ReadConfigFileTry(f)

\* try { ... } catch { return null }
ReadConfigFile(f) ==
  Bind(ReadConfigFileTry(f), LAMBDA r : IF r.kind = "throw" THEN NullConfig ELSE r)

\* config.ts of the Keychain-only version: the file, without human/agent/repo.
ReadConfigV1(f) ==
  Bind(ReadConfigFile(f),
       LAMBDA r : [r EXCEPT !.human = Undef, !.agent = Undef, !.repo = Undef])

\* Faulty variant: the config file is consulted before the environment.
ReadConfigFileFirst(e, f) ==
  Bind(ReadConfigFile(f), LAMBDA r :
    IF r.kind = "config" THEN r
    ELSE IF Truthy(e.appId) /\ Truthy(e.installId)
            /\ ~ParseInt(e.appId.v).nan /\ ~ParseInt(e.installId.v).nan
      THEN [kind |-> "config", src |-> "env",
            appId |-> ParseInt(e.appId.v).n,
            installationId |-> OptNum(ParseInt(e.installId.v).n),
            human |-> EnvOpt(e.human), agent |-> EnvOpt(e.agent), repo |-> Undef]
      ELSE NullConfig)

\* readConfig with the environment first, then the config file.
ReadConfig(e, f) ==
  Bind(ParseInt(e.appId.v), LAMBDA appId :
  Bind(ParseInt(e.installId.v), LAMBDA installationId :
    IF Truthy(e.appId) /\ Truthy(e.installId) /\ ~appId.nan /\ ~installationId.nan
      THEN [kind |-> "config", src |-> "env",
            appId |-> appId.n,
            installationId |-> OptNum(installationId.n),
            human |-> EnvOpt(e.human), agent |-> EnvOpt(e.agent), repo |-> Undef]
      ELSE ReadConfigFile(f)))

\* What getPrivateKey yields: null, a string, or a raised exception.
NullKey == [kind |-> "null", src |-> "none", v |-> <<>>]
ThrownKey == [NullKey EXCEPT !.kind = "throw"]

\* The Keychain read with the decoded text trimmed as well.
KeychainReadTryTrimmed(k) ==
  IF ~k.present THEN ThrownKey
  ELSE [kind |-> "key", src |-> "keychain",
        v |-> TrimEnd(Base64Decode(TrimEnd(k.secret \o <<"\n">>)))]

\* The try body of the Keychain read: `security find-generic-password -w`
\* fails when there is no entry, and prints the password and a newline
\* otherwise.
KeychainReadTry(k) ==
  IF ~k.present THEN ThrownKey
  ELSE [kind |-> "key", src |-> "keychain",
        v |-> Base64Decode(TrimEnd(k.secret \o <<"\n">>))]

\* The private keys of the model: two PEM texts ending in a newline, one
\* without, and one text that is no PEM key.
PemBegin == <<"-", "-", "-", "-", "-", "B", "E", "G", "I", "N">>
PemEnd == <<"-", "-", "-", "-", "-", "E", "N", "D">>
KeyA == PemBegin \o PemEnd \o <<"A", "\n">>
KeyB == PemBegin \o PemEnd \o <<"B", "\n">>
KeyC == PemBegin \o <<"C">> \o PemEnd
KeyBad == <<"x">>
Keys == {KeyA, KeyB, KeyC, KeyBad}

\* The Keychain entries of the model, and the read of each computed once.
Keychains == {KeychainEmpty} \cup {KeychainWith(Base64Encode(key)) : key \in Keys}
KeychainReadTable == [k \in Keychains |-> KeychainReadTry(k)]

\* try { ... } catch { return null }
KeychainRead(k) ==
  Bind(KeychainReadTable[k], LAMBDA r : IF r.kind = "throw" THEN NullKey ELSE r)

\* getPrivateKey with the environment first, then the Keychain.
GetPrivateKey(e, k) ==
  IF Truthy(e.key) THEN [kind |-> "key", src |-> "env", v |-> e.key.v]
  ELSE KeychainRead(k)

\* setPrivateKey: `security add-generic-password -w <base64> -U`.
SetPrivateKey(privateKey) == KeychainWith(Base64Encode(privateKey))

\* writeConfig({appId, installationId}) followed by a later JSON.parse.
WriteConfig(appId, installationId) ==
  FileObj(JNum(appId), JNum(installationId), JUndef, JUndef, JUndef)

(***************************************************************************)
(* Token issuer (auth.ts).                                                 *)
(***************************************************************************)

\* cachedToken = null; an installation token "ghs_<n>" is the number n > 0.
NoToken == 0

\* Number of distinct token values the provider hands out.
MaxToken == 2

Tokens == 1..MaxToken

\* The error an operation raised, if any.
NoError == [kind |-> "none", status |-> 0, body |-> <<>>]
ConfigError(what) == [kind |-> what, status |-> 0, body |-> <<>>]
Raised(what) == [kind |-> what, status |-> 0, body |-> <<>>]
ApiError(status, body) == [kind |-> "api", status |-> status, body |-> body]

\* The provider's answer to POST /app/installations/{id}/access_tokens: a
\* 2xx response with a token, another status with a body, or no response
\* (network failure or the 30 s timeout: fetch rejects).
RespOk(t) == [kind |-> "ok", status |-> 201, body |-> <<>>, token |-> t]
RespHttp(status, body) == [kind |-> "http", status |-> status, body |-> body, token |-> NoToken]
RespNone == [kind |-> "none", status |-> 0, body |-> <<>>, token |-> NoToken]

Responses == {RespOk(t) : t \in Tokens} \cup {RespHttp(401, <<"b", "a", "d">>), RespNone}

\* crypto's sign.sign(privateKey) throws on text that is no PEM key.
LooksLikePem(key) == Includes(key, PemBegin) /\ Includes(key, PemEnd)

\* createJwt(appId, privateKey) at time t (ms): the signed claims.
CreateJwt(appId, privateKey, t) ==
  [iss |-> appId, iat |-> (t \div 1000) - 60, exp |-> (t \div 1000) + 600,
   signedWith |-> privateKey]

\* The credentials an exchange was made with.
NoCreds == [appId |-> 0, installationId |-> 0, key |-> <<>>]

\* One outbound token-exchange request.
Request(config, key, t) ==
  [installationId |-> config.installationId.n,
   jwt |-> CreateJwt(config.appId, key.v, t),
   configSrc |-> config.src, keySrc |-> key.src]

Fetched(err, token, requests) ==
  [threw |-> err.kind # "none", err |-> err, token |-> token, requests |-> requests]

\* Faulty variant: the request is sent before the credentials are checked.
FetchInstallationTokenUnchecked(e, f, k, t, resp) ==
  Bind(Request(ReadConfig(e, f), GetPrivateKey(e, k), t), LAMBDA req :
    IF resp.kind = "ok" THEN Fetched(NoError, resp.token, <<req>>)
    ELSE Fetched(ApiError(resp.status, resp.body), NoToken, <<req>>))

\* Faulty variant: a non-2xx response is retried once and its body is read as a token.
FetchInstallationTokenLenient(e, f, k, t, resp) ==
  Bind(ReadConfig(e, f), LAMBDA config :
  Bind(GetPrivateKey(e, k), LAMBDA key :
  Bind(Request(config, key, t), LAMBDA req :
    IF config.kind # "config" \/ ~config.installationId.def \/ key.kind # "key"
      THEN Fetched(ConfigError("not-configured"), NoToken, <<>>)
    ELSE IF resp.kind = "ok" THEN Fetched(NoError, resp.token, <<req>>)
    ELSE Fetched(NoError, 1, <<req, req>>))))

\* fetchInstallationToken()
FetchInstallationToken(e, f, k, t, resp) ==
  Bind(ReadConfig(e, f), LAMBDA config :
  Bind(GetPrivateKey(e, k), LAMBDA key :
  Bind(Request(config, key, t), LAMBDA req :
    IF config.kind # "config"
      THEN Fetched(ConfigError("not-configured"), NoToken, <<>>)
    ELSE IF ~config.installationId.def \/ config.installationId.n = 0
      THEN Fetched(ConfigError("no-installation-id"), NoToken, <<>>)
    ELSE IF key.kind # "key" \/ key.v = <<>>
      THEN Fetched(ConfigError("no-private-key"), NoToken, <<>>)
    ELSE IF ~LooksLikePem(key.v)
      THEN Fetched(Raised("sign-failed"), NoToken, <<>>)
    ELSE IF resp.kind = "none"
      THEN Fetched(Raised("network"), NoToken, <<req>>)
    ELSE IF resp.kind # "ok"
      THEN Fetched(ApiError(resp.status, resp.body), NoToken, <<req>>)
    ELSE Fetched(NoError, resp.token, <<req>>))))

\* The outcome of getInstallationToken(): the token returned (or the error
\* raised), the cache afterwards, and the exchange requests it sent.
TokenResult(err, token, cache, requests) ==
  [threw |-> err.kind # "none", err |-> err, token |-> token, cache |-> cache,
   requests |-> requests]

\* Faulty variant: the cache is never consulted.
GetInstallationTokenNoCache(cache, e, f, k, t, resp) ==
  Bind(FetchInstallationToken(e, f, k, t, resp), LAMBDA r :
    IF r.threw THEN TokenResult(r.err, NoToken, cache, r.requests)
    ELSE TokenResult(NoError, r.token, r.token, r.requests))

\* getInstallationToken()
GetInstallationToken(cache, e, f, k, t, resp) ==
  IF cache # NoToken THEN TokenResult(NoError, cache, cache, <<>>)
  ELSE Bind(FetchInstallationToken(e, f, k, t, resp), LAMBDA r :
         IF r.threw THEN TokenResult(r.err, NoToken, cache, r.requests)
         ELSE TokenResult(NoError, r.token, r.token, r.requests))

\* clearTokenCache()
ClearTokenCache == NoToken

(***************************************************************************)
(* The gh CLI and the gh tools variant of index.ts.                        *)
(***************************************************************************)

\* ExecResult of pi.exec("gh", ...).
ExecResult(code, stdout, stderr) == [code |-> code, stdout |-> stdout, stderr |-> stderr]
NoResult == ExecResult(0, <<>>, <<>>)

\* Sample runs: success, success with an authentication warning on stderr,
\* an authentication failure, another failure.
ExecOk == ExecResult(0, <<"o", "k">>, <<>>)
ExecWarn == ExecResult(0, <<"o", "k">>, <<"4", "0", "1">>)
ExecUnauthorized ==
  ExecResult(1, <<>>, <<"U", "n", "a", "u", "t", "h", "o", "r", "i", "z", "e", "d">>)
Exec404 == ExecResult(1, <<>>, <<"H", "T", "T", "P", " ", "4", "0", "4">>)

ExecResults == {ExecOk, ExecWarn, ExecUnauthorized, Exec404}

\* /401|Bad credentials|authentication|unauthorized/i.test(stderr)
AuthPatternMatches(stderr) ==
  Bind(ToLower(stderr), LAMBDA s :
    \/ Includes(s, <<"4", "0", "1">>)
    \/ Includes(s, <<"b", "a", "d", " ", "c", "r", "e", "d", "e", "n", "t", "i", "a", "l", "s">>)
    \/ Includes(s, <<"a", "u", "t", "h", "e", "n", "t", "i", "c", "a", "t", "i", "o", "n">>)
    \/ Includes(s, <<"u", "n", "a", "u", "t", "h", "o", "r", "i", "z", "e", "d">>))

\* The match, computed once for each sample stderr.
AuthPatternTable == [r \in ExecResults |-> AuthPatternMatches(r.stderr)]

\* Faulty variant: every stderr counts as an authentication failure.
IsAuthErrorAny(result) == TRUE

\* isAuthError(result.stderr)
IsAuthError(result) == AuthPatternTable[result]

\* One run of the gh process: whether GH_TOKEN was put into its
\* environment, and which token.
Exec(injected, token) == [injected |-> injected, token |-> token]

\* What a handler did to the token issuer, in order: clearTokenCache()
\* calls and getInstallationToken() calls.
ClearEvent == [e |-> "clear", ok |-> FALSE, token |-> NoToken, net |-> 0]
TokenEvent(r) ==
  [e |-> "token", ok |-> ~r.threw, token |-> r.token, net |-> Len(r.requests)]

GhOutcome(raised, err, result, cache, execs, ev, requests) ==
  [raised |-> raised, err |-> err, result |-> result, cache |-> cache,
   execs |-> execs, ev |-> ev, requests |-> requests]

\* gh(pi, args, signal): r1 and r2 are what the first and the second run
\* of the gh process return, resp1 and resp2 what the provider answers to
\* the first and the second token exchange.
GhOnce(useBot, cache, e, f, k, t, r1, r2, resp1, resp2) ==
  IF ~useBot
    THEN GhOutcome(FALSE, NoError, r1, cache, <<Exec(FALSE, NoToken)>>, <<>>, <<>>)
  ELSE
    Bind(GetInstallationToken(cache, e, f, k, t, resp1), LAMBDA t1 :
      IF t1.threw
        THEN GhOutcome(TRUE, t1.err, NoResult, t1.cache, <<>>,
                       <<TokenEvent(t1)>>, t1.requests)
      ELSE IF r1.code # 0 /\ IsAuthError(r1)
        THEN
          Bind(GetInstallationToken(ClearTokenCache, e, f, k, t, resp2), LAMBDA t2 :
          Bind(<<TokenEvent(t1), ClearEvent, TokenEvent(t2)>>, LAMBDA ev :
          Bind(t1.requests \o t2.requests, LAMBDA requests :
            IF t2.threw
              THEN GhOutcome(TRUE, t2.err, NoResult, t2.cache,
                             <<Exec(TRUE, t1.token)>>, ev, requests)
            ELSE IF t2.token # t1.token
              THEN GhOutcome(FALSE, NoError, r2, t2.cache,
                             <<Exec(TRUE, t1.token), Exec(TRUE, t2.token)>>,
                             ev, requests)
            ELSE GhOutcome(FALSE, NoError, r1, t2.cache,
                           <<Exec(TRUE, t1.token)>>, ev, requests))))
      ELSE GhOutcome(FALSE, NoError, r1, t1.cache, <<Exec(TRUE, t1.token)>>,
                     <<TokenEvent(t1)>>, t1.requests))

\* Faulty variant: a retry that fails with an authentication error is retried again.
GhRetryAgain(useBot, cache, e, f, k, t, r1, r2, resp1, resp2) ==
  Bind(GhOnce(useBot, cache, e, f, k, t, r1, r2, resp1, resp2), LAMBDA o :
    IF Len(o.execs) = 2 /\ r2.code # 0 /\ IsAuthError(r2)
      THEN [o EXCEPT !.execs = Append(o.execs, o.execs[2])]
      ELSE o)

\* Faulty variant: the retry does not compare the reacquired token with
\* the failed one.
GhRetrySameToken(useBot, cache, e, f, k, t, r1, r2, resp1, resp2) ==
  Bind(GhOnce(useBot, cache, e, f, k, t, r1, r2, resp1, resp2), LAMBDA o :
    IF Len(o.ev) = 3 /\ ~o.raised /\ Len(o.execs) = 1
      THEN [o EXCEPT !.execs = Append(o.execs, o.execs[1]), !.result = r2]
      ELSE o)

\* gh() as the tools call it.
Gh(useBot, cache, e, f, k, t, r1, r2, resp1, resp2) ==
  GhOnce(useBot, cache, e, f, k, t, r1, r2, resp1, resp2)

ErrorPrefix == <<"E", "r", "r", "o", "r", ":", " ">>

\* ToolResult; none when the tool's execute raised.
NoToolResult == [isError |-> FALSE, text |-> <<>>]

\* ghResult / ghResultText
GhResult(result) ==
  IF result.code # 0
    THEN [isError |-> TRUE, text |-> ErrorPrefix \o result.stderr]
    ELSE [isError |-> FALSE, text |-> result.stdout]

(***************************************************************************)
(* The bash spawnHook variant of index.ts.                                 *)
(***************************************************************************)

\* tokenAcquiredAt = null (a timestamp of 0 is as falsy as null).
NoTime == 0

TOKEN_REFRESH_MS == 50 * 60 * 1000

\* Faulty variant: a token of exactly the threshold age already counts as stale.
IsTokenStaleInclusive(acquiredAt, t) ==
  IF acquiredAt = NoTime THEN TRUE ELSE t - acquiredAt >= TOKEN_REFRESH_MS

\* isTokenStale()
IsTokenStale(acquiredAt, t) ==
  IF acquiredAt = NoTime THEN TRUE ELSE t - acquiredAt > TOKEN_REFRESH_MS

\* The outcome of a handler of the spawnHook variant.
BotOutcome(raised, err, bot, at, cache, ev, requests) ==
  [raised |-> raised, err |-> err, bot |-> bot, at |-> at, cache |-> cache,
   ev |-> ev, requests |-> requests]

\* refreshToken(), also the body of the try blocks of "/gh-bot on" and of
\* session_start: clearTokenCache(); botToken = await getInstallationToken();
\* tokenAcquiredAt = Date.now().
RefreshToken(bot, at, e, f, k, t, resp) ==
  Bind(GetInstallationToken(ClearTokenCache, e, f, k, t, resp), LAMBDA r :
  Bind(<<ClearEvent, TokenEvent(r)>>, LAMBDA ev :
    IF r.threw THEN BotOutcome(TRUE, r.err, bot, at, r.cache, ev, r.requests)
    ELSE BotOutcome(FALSE, NoError, r.token, t, r.cache, ev, r.requests)))

\* Faulty variant: a failed refresh still stamps the acquisition time.
SpawnHookStampOnFailure(bot, at, cache, e, f, k, t, resp) ==
  IF bot # NoToken /\ IsTokenStale(at, t)
    THEN Bind(RefreshToken(bot, at, e, f, k, t, resp),
              LAMBDA r : [r EXCEPT !.raised = FALSE, !.at = t])
    ELSE BotOutcome(FALSE, NoError, bot, at, cache, <<>>, <<>>)

\* spawnHook({command, cwd, env}) up to its return statement.
SpawnHook(bot, at, cache, e, f, k, t, resp) ==
  IF bot # NoToken /\ IsTokenStale(at, t)
    THEN Bind(RefreshToken(bot, at, e, f, k, t, resp),
              LAMBDA r : [r EXCEPT !.raised = FALSE])
    ELSE BotOutcome(FALSE, NoError, bot, at, cache, <<>>, <<>>)

\* Faulty variant: GH_TOKEN is set whether or not there is a bot token.
SpawnEnvAlways(bot) == Exec(TRUE, bot)

\* env: botToken ? { ...env, GH_TOKEN: botToken } : env
SpawnEnv(bot) == IF bot # NoToken THEN Exec(TRUE, bot) ELSE Exec(FALSE, NoToken)

ArgOn == <<"o", "n">>
ArgOff == <<"o", "f", "f">>

\* args?.trim().toLowerCase()
NormalizeArg(args) == ToLower(Trim(args))

\* "/gh-bot [on|off]" that turns the bot off when the token cannot be
\* acquired.
GhBotCommandReset(args, bot, at, cache, e, f, k, t, resp) ==
  Bind(NormalizeArg(args), LAMBDA arg :
    IF arg = ArgOn \/ (arg = <<>> /\ bot = NoToken)
      THEN IF ReadConfig(e, f).kind # "config"
             THEN [out |-> BotOutcome(FALSE, NoError, bot, at, cache, <<>>, <<>>),
                   appended |-> "none"]
           ELSE Bind(RefreshToken(bot, at, e, f, k, t, resp), LAMBDA r :
                  IF r.raised
                    THEN [out |-> [r EXCEPT !.raised = FALSE, !.bot = NoToken,
                                            !.at = NoTime],
                          appended |-> "none"]
                    ELSE [out |-> r, appended |-> "on"])
      ELSE [out |-> BotOutcome(FALSE, NoError, NoToken, NoTime, ClearTokenCache,
                               <<ClearEvent>>, <<>>),
            appended |-> "off"])

\* "/gh-bot [on|off]" of the spawnHook variant. appended is the session
\* entry the handler appends ("none" when it appends nothing).
GhBotCommand(args, bot, at, cache, e, f, k, t, resp) ==
  Bind(NormalizeArg(args), LAMBDA arg :
    IF arg = ArgOn \/ (arg = <<>> /\ bot = NoToken)
      THEN IF ReadConfig(e, f).kind # "config"
             THEN [out |-> BotOutcome(FALSE, NoError, bot, at, cache, <<>>, <<>>),
                   appended |-> "none"]
           ELSE Bind(RefreshToken(bot, at, e, f, k, t, resp), LAMBDA r :
                  IF r.raised
                    THEN [out |-> [r EXCEPT !.raised = FALSE], appended |-> "none"]
                    ELSE [out |-> r, appended |-> "on"])
      ELSE [out |-> BotOutcome(FALSE, NoError, NoToken, NoTime, ClearTokenCache,
                               <<ClearEvent>>, <<>>),
            appended |-> "off"])

\* "/gh-bot-setup": the three prompts, then the stores. fail names the
\* store whose write fails ("none", "key" for the Keychain, "config" for
\* the file). Yields the stores afterwards.
GhBotSetup(appIdStr, installIdStr, privateKey, fail, f, k) ==
  Bind(ParseInt(appIdStr), LAMBDA appId :
  Bind(ParseInt(installIdStr), LAMBDA installationId :
  Bind([saved |-> FALSE, file |-> f, keychain |-> k], LAMBDA same :
    IF appIdStr = <<>> THEN same
    ELSE IF appId.nan \/ appId.n <= 0 THEN same
    ELSE IF installIdStr = <<>> THEN same
    ELSE IF installationId.nan \/ installationId.n <= 0 THEN same
    ELSE IF privateKey = <<>> \/ ~Includes(privateKey, PemBegin)
            \/ ~Includes(privateKey, PemEnd) THEN same
    ELSE IF fail = "key" THEN same
    ELSE IF fail = "config"
      THEN [saved |-> FALSE, file |-> f, keychain |-> SetPrivateKey(privateKey)]
    ELSE [saved |-> TRUE, file |-> WriteConfig(appId.n, installationId.n),
          keychain |-> SetPrivateKey(privateKey)])))

\* session_start of the spawnHook variant; entry is the last gh-bot entry
\* of the resumed session.
SessionStart(entry, bot, at, cache, e, f, k, t, resp) ==
  IF entry = "on"
    THEN Bind(RefreshToken(bot, at, e, f, k, t, resp),
              LAMBDA r : [r EXCEPT !.raised = FALSE])
    ELSE BotOutcome(FALSE, NoError, bot, at, cache, <<>>, <<>>)

\* "/gh-bot [on|off]" of the gh tools variant.
GhBotCommandTools(args, useBot) ==
  Bind(NormalizeArg(args), LAMBDA arg :
    IF arg = ArgOn THEN TRUE
    ELSE IF arg = ArgOff THEN FALSE
    ELSE ~useBot)

\* session_start of the gh tools variant.
SessionStartTools(entry, useBot) == IF entry = "on" THEN TRUE ELSE useBot

(***************************************************************************)
(* State.                                                                  *)
(***************************************************************************)

VARIABLES
  variant,          \* which index.ts is loaded: "spawn" or "tools"
  env,              \* process.env: GH_BOT_APP_ID, _INSTALLATION_ID, _PRIVATE_KEY, _HUMAN, _AGENT
  file,             \* ~/.config/gh-bot/config.json
  keychain,         \* the Keychain entry gh-bot/private-key
  cachedToken,      \* auth.ts: cachedToken
  botToken,         \* index.ts (spawnHook variant): botToken
  tokenAcquiredAt,  \* index.ts (spawnHook variant): tokenAcquiredAt
  useBotAuth,       \* index.ts (gh tools variant): useBotAuth
  now,              \* Date.now(), in ms
  entry,            \* the last "gh-bot" custom entry of the session: "none", "on", "off"
  last,             \* what the last handler did (observation)
  sinceClear,       \* token requests since the last clearTokenCache() (observation)
  cachedAt,         \* when cachedToken was issued (observation)
  cachedFor,        \* the credentials cachedToken was issued for (observation)
  botFor,           \* the credentials botToken was issued for (observation)
  resolved,         \* the last result of the credential resolver (observation)
  calls,            \* handler invocations suspended at an await of the token issuer
  maxEffort,        \* skill-model: highest min-effort seen in this prompt
  applied,          \* skill-model: applyEffort has run in this prompt
  session,          \* the host's session: model, thinking level, registry, skill home
  prompt,           \* the prompt under way and what it loaded (observation)
  agentState        \* gh-agent: its environment, its sandbox and its last tool call

\* The state of the skill-model extension and of its host.
skillVars == << maxEffort, applied, session, prompt >>

\* What the handlers of the gh-bot state machines leave alone.
others == << calls, skillVars, agentState >>

vars ==
  << variant, env, file, keychain, cachedToken, botToken, tokenAcquiredAt, useBotAuth,
     now, entry, last, sinceClear, cachedAt, cachedFor, botFor, resolved, others >>

stores == << env, file, keychain >>

\* Number of handler invocations that can be under way at once.
MaxCallers == 2

Callers == 1..MaxCallers

\* An invocation that has not started (or has returned).
NoCall == [pc |-> "idle", token |-> NoToken]

\* let maxEffort = -1: no run-* skill loaded yet.
NoEffort == -1

\* The session before any extension has touched it.
NoSession ==
  [model |-> "default", thinking |-> "default", registry |-> {}, home |-> "cwd"]

\* No prompt yet.
NoPrompt ==
  [phase |-> "idle", loaded |-> {}, reads |-> 0, seen |-> {}, setModel |-> 0, setThinking |-> 0,
   inForce |-> NoEffort, start |-> [model |-> "default", thinking |-> "default"],
   prev |-> NoEffort, asked |-> NoEffort]

\* The skill-model extension is not loaded next to gh-bot.
SkillIdle ==
  /\ maxEffort = NoEffort
  /\ applied = FALSE
  /\ session = NoSession
  /\ prompt = NoPrompt

\* The gh-agent extension is not loaded: nothing in its environment, no
\* link in its sandbox, no tool called.
NoAgent ==
  [ambient |-> [set |-> FALSE, v |-> <<>>], token |-> [set |-> FALSE, v |-> <<>>],
   links |-> {}, last |-> [op |-> "none"]]

\* Length of one clock step: 25 minutes.
TickMs == 25 * 60 * 1000

\* Number of clock steps of a behaviour.
MaxTicks == 3

\* Token requests counted since the last clearTokenCache().
MaxCount == 2

Min(a, b) == IF a < b THEN a ELSE b

(***************************************************************************)
(* Sample inputs.                                                          *)
(***************************************************************************)

Env(appId, installId, key, human, agent) ==
  [appId |-> appId, installId |-> installId, key |-> key, human |-> human, agent |-> agent]

EnvNone == Env(Unset, Unset, Unset, Unset, Unset)
EnvFull ==
  Env(EnvStr(<<"1", "1">>), EnvStr(<<"1", "2">>), EnvStr(KeyA), EnvStr(<<"h">>), Unset)
EnvIdsOnly == Env(EnvStr(<<"1", "1">>), EnvStr(<<"1", "2">>), Unset, Unset, Unset)
EnvKeyOnly == Env(Unset, Unset, EnvStr(KeyA), Unset, Unset)

FileFull == FileObj(JNum(21), JNum(22), JStr(<<"f">>), JStr(<<"g">>), JStr(<<"r">>))

\* The stores a process starts with: nothing configured, the file and the
\* Keychain configured, the environment configured on top of them.
InitStores ==
  { <<EnvNone, FileMissing, KeychainEmpty>>,
    <<EnvNone, FileFull, SetPrivateKey(KeyB)>>,
    <<EnvFull, FileFull, SetPrivateKey(KeyB)>> }

\* What the user types into /gh-bot-setup (app id, installation id, private
\* key) and which store fails: one sample for each way through the handler.
SetupInputs ==
  { << <<>>, <<"3", "2">>, KeyC, "none" >>,
    << <<"x">>, <<"3", "2">>, KeyC, "none" >>,
    << <<"3", "1">>, <<>>, KeyC, "none" >>,
    << <<"3", "1">>, <<"0">>, KeyC, "none" >>,
    << <<"3", "1">>, <<"3", "2">>, <<>>, "none" >>,
    << <<"3", "1">>, <<"3", "2">>, KeyBad, "none" >>,
    << <<"3", "1">>, <<"3", "2">>, KeyC, "key" >>,
    << <<"3", "1">>, <<"3", "2">>, KeyC, "config" >>,
    << <<"3", "1">>, <<"3", "2">>, KeyC, "none" >> }

\* What the user types after /gh-bot.
CommandArgs == {<<>>, ArgOn, <<" ", "O", "N">>, ArgOff, <<"x">>}

(***************************************************************************)
(* Observations.                                                           *)
(***************************************************************************)

NoCount == [returned |-> {}, returns |-> 0, okFetches |-> 0, lateFetches |-> 0]

\* One clearTokenCache() or getInstallationToken() call, counted.
Count(sc, e) ==
  IF e.e = "clear" THEN NoCount
  ELSE [returned |-> sc.returned \cup (IF e.ok THEN {e.token} ELSE {}),
        returns |-> Min(sc.returns + (IF e.ok THEN 1 ELSE 0), MaxCount),
        okFetches |-> Min(sc.okFetches + (IF e.ok /\ e.net > 0 THEN 1 ELSE 0), MaxCount),
        lateFetches |->
          Min(sc.lateFetches + (IF sc.returned # {} THEN e.net ELSE 0), MaxCount)]

RECURSIVE CountAll(_, _)
CountAll(sc, ev) ==
  IF ev = <<>> THEN sc ELSE CountAll(Count(sc, Head(ev)), Tail(ev))

CredsOf(req) ==
  [appId |-> req.jwt.iss, installationId |-> req.installationId, key |-> req.jwt.signedWith]

\* The credentials a token exchange would be made with now.
CurrentCreds(e, f, k) ==
  Bind(ReadConfig(e, f), LAMBDA config :
  Bind(GetPrivateKey(e, k), LAMBDA key :
    [appId |-> config.appId, installationId |-> config.installationId.n, key |-> key.v]))

Fetched1(ev) == \E i \in 1..Len(ev) : ev[i].e = "token" /\ ev[i].ok /\ ev[i].net > 0
Returned1(ev) == \E i \in 1..Len(ev) : ev[i].e = "token" /\ ev[i].ok

\* When the cache's token was issued, after a handler.
CachedAtAfter(cache, ev) ==
  IF cache = NoToken THEN NoTime ELSE IF Fetched1(ev) THEN now ELSE cachedAt

\* The credentials the cache's token was issued for, after a handler.
CachedForAfter(cache, ev, requests) ==
  IF cache = NoToken THEN NoCreds
  ELSE IF Fetched1(ev) THEN CredsOf(requests[Len(requests)])
  ELSE cachedFor

\* The state a handler started in, as far as the properties look at it.
Pre ==
  [cache |-> cachedToken, bot |-> botToken, useBot |-> useBotAuth,
   age |-> IF tokenAcquiredAt = NoTime THEN 0 ELSE now - tokenAcquiredAt,
   cacheAge |-> IF cachedAt = NoTime THEN 0 ELSE now - cachedAt,
   at |-> tokenAcquiredAt, entry |-> entry]

Last(op, raised, err, execs, ev, requests, result, tool, appended, saved, input) ==
  [op |-> op, raised |-> raised, err |-> err, execs |-> execs, ev |-> ev,
   requests |-> requests, result |-> result, tool |-> tool, appended |-> appended,
   saved |-> saved, input |-> input, pre |-> Pre]

NoResolved ==
  [op |-> "none", config |-> NullConfig, key |-> NullKey, configV1 |-> NullConfig,
   keyV1 |-> NullKey, fetch |-> TokenResult(NoError, NoToken, NoToken, <<>>),
   resp |-> RespNone, cacheBefore |-> NoToken]

(***************************************************************************)
(* The extension as a state machine: one action per handler.               *)
(***************************************************************************)

NoInput == [args |-> <<>>, r1 |-> NoResult, r2 |-> NoResult]
ArgsInput(args) == [NoInput EXCEPT !.args = args]
ExecInput(r1, r2) == [NoInput EXCEPT !.r1 = r1, !.r2 = r2]

\* No handler has run yet.
NoLast ==
  [op |-> "init", raised |-> FALSE, err |-> NoError, execs |-> <<>>,
   ev |-> <<>>, requests |-> <<>>, result |-> NoResult,
   tool |-> NoToolResult, appended |-> "none", saved |-> FALSE,
   input |-> NoInput,
   pre |-> [cache |-> NoToken, bot |-> NoToken, useBot |-> FALSE, age |-> 0,
            cacheAge |-> 0, at |-> NoTime, entry |-> "none"]]

\* Time has passed since the last handler returned.
Idle == [NoLast EXCEPT !.op = "idle"]

Init ==
  /\ variant \in {"spawn", "tools"}
  /\ \E st \in InitStores : env = st[1] /\ file = st[2] /\ keychain = st[3]
  /\ cachedToken = NoToken
  /\ botToken = NoToken
  /\ tokenAcquiredAt = NoTime
  /\ useBotAuth = FALSE
  /\ now = TickMs
  /\ entry \in {"none", "on"}
  /\ sinceClear = NoCount
  /\ cachedAt = NoTime
  /\ cachedFor = NoCreds
  /\ botFor = NoCreds
  /\ resolved = NoResolved
  /\ last = NoLast
  /\ calls = [c \in Callers |-> NoCall]
  /\ SkillIdle
  /\ agentState = NoAgent

\* The state a handler of the spawnHook variant leaves behind.
BotEffect(o) ==
  /\ botToken' = o.bot
  /\ tokenAcquiredAt' = o.at
  /\ cachedToken' = o.cache
  /\ sinceClear' = CountAll(sinceClear, o.ev)
  /\ cachedAt' = CachedAtAfter(o.cache, o.ev)
  /\ cachedFor' = CachedForAfter(o.cache, o.ev, o.requests)
  /\ botFor' = IF o.bot = NoToken THEN NoCreds
               ELSE IF Returned1(o.ev) THEN CachedForAfter(o.cache, o.ev, o.requests)
               ELSE botFor

\* Time passes.
Tick ==
  /\ now + TickMs <= TickMs * (MaxTicks + 1)
  /\ now' = now + TickMs
  /\ last' = IF last.op = "init" THEN last ELSE Idle
  /\ UNCHANGED others
  /\ UNCHANGED << variant, stores, cachedToken, botToken, tokenAcquiredAt, useBotAuth,
                  entry, sinceClear, cachedAt, cachedFor, botFor, resolved >>

\* The bash tool spawns a command: spawnHook runs.
Spawn ==
  /\ variant = "spawn"
  /\ \E resp \in Responses :
       \E o \in {SpawnHook(botToken, tokenAcquiredAt, cachedToken, env, file, keychain,
                            now, resp)} :
           /\ BotEffect(o)
           /\ last' = Last("spawn", o.raised, o.err, <<SpawnEnv(o.bot)>>, o.ev,
                           o.requests, NoResult, NoToolResult, "none", FALSE, NoInput)
  /\ UNCHANGED others
  /\ UNCHANGED << variant, stores, useBotAuth, now, entry, resolved >>

\* The user runs /gh-bot (spawnHook variant).
ToggleSpawn ==
  /\ variant = "spawn"
  /\ \E args \in CommandArgs, resp \in Responses :
       \E c \in {GhBotCommand(args, botToken, tokenAcquiredAt, cachedToken, env, file,
                             keychain, now, resp)} :
           /\ BotEffect(c.out)
           /\ entry' = IF c.appended = "none" THEN entry ELSE c.appended
           /\ last' = Last("gh-bot", c.out.raised, c.out.err, <<>>, c.out.ev,
                           c.out.requests, NoResult, NoToolResult, c.appended, FALSE,
                           ArgsInput(args))
  /\ UNCHANGED others
  /\ UNCHANGED << variant, stores, useBotAuth, now, resolved >>

\* The user runs /gh-bot-setup (spawnHook variant).
Setup ==
  /\ variant = "spawn"
  /\ \E in \in SetupInputs :
       \E r \in {GhBotSetup(in[1], in[2], in[3], in[4], file, keychain)} :
           /\ file' = r.file
           /\ keychain' = r.keychain
           /\ last' = Last("gh-bot-setup", FALSE, NoError, <<>>, <<>>, <<>>, NoResult,
                           NoToolResult, "none", r.saved, NoInput)
  /\ UNCHANGED others
  /\ UNCHANGED << variant, env, cachedToken, botToken, tokenAcquiredAt, useBotAuth, now,
                  entry, sinceClear, cachedAt, cachedFor, botFor, resolved >>

\* The host starts or resumes the session (spawnHook variant): the first
\* event the extension sees.
ResumeSpawn ==
  /\ variant = "spawn"
  /\ last.op = "init"
  /\ \E resp \in Responses :
       \E o \in {SessionStart(entry, botToken, tokenAcquiredAt, cachedToken, env, file,
                             keychain, now, resp)} :
           /\ BotEffect(o)
           /\ last' = Last("session_start", o.raised, o.err, <<>>, o.ev, o.requests,
                           NoResult, NoToolResult, "none", FALSE, NoInput)
  /\ UNCHANGED others
  /\ UNCHANGED << variant, stores, useBotAuth, now, entry, resolved >>

\* The inputs gh() can come to read: without bot identity no exchange is
\* made, and after a first run that exits 0 there is no second run.
FirstResponses(useBot) == IF useBot THEN Responses ELSE {RespNone}
SecondExecResults(useBot, r1) ==
  IF useBot /\ r1.code # 0 THEN ExecResults \ {ExecWarn} ELSE {NoResult}
SecondResponses(useBot, r1) == IF useBot /\ r1.code # 0 THEN Responses ELSE {RespNone}

\* The agent calls one of the gh_* tools (gh tools variant): execute runs
\* gh() and wraps its result.
GhTool ==
  /\ variant = "tools"
  /\ \E r1 \in ExecResults, resp1 \in FirstResponses(useBotAuth) :
     \E r2 \in SecondExecResults(useBotAuth, r1), resp2 \in SecondResponses(useBotAuth, r1) :
       \E o \in {Gh(useBotAuth, cachedToken, env, file, keychain, now, r1, r2, resp1, resp2)} :
           /\ cachedToken' = o.cache
           /\ sinceClear' = CountAll(sinceClear, o.ev)
           /\ cachedAt' = CachedAtAfter(o.cache, o.ev)
           /\ cachedFor' = CachedForAfter(o.cache, o.ev, o.requests)
           /\ last' = Last("gh", o.raised, o.err, o.execs, o.ev, o.requests, o.result,
                           IF o.raised THEN NoToolResult ELSE GhResult(o.result),
                           "none", FALSE,
                           ExecInput(r1, IF Len(o.execs) > 1 THEN r2 ELSE NoResult))
  /\ UNCHANGED others
  /\ UNCHANGED << variant, stores, botToken, tokenAcquiredAt, useBotAuth, now, entry,
                  botFor, resolved >>

\* The user runs /gh-bot (gh tools variant).
ToggleTools ==
  /\ variant = "tools"
  /\ \E args \in CommandArgs :
       /\ useBotAuth' = GhBotCommandTools(args, useBotAuth)
       /\ entry' = IF useBotAuth' THEN "on" ELSE "off"
       /\ last' = Last("gh-bot", FALSE, NoError, <<>>, <<>>, <<>>, NoResult, NoToolResult,
                       entry', FALSE, ArgsInput(args))
  /\ UNCHANGED others
  /\ UNCHANGED << variant, stores, cachedToken, botToken, tokenAcquiredAt, now,
                  sinceClear, cachedAt, cachedFor, botFor, resolved >>

\* The host starts or resumes the session (gh tools variant).
ResumeTools ==
  /\ variant = "tools"
  /\ last.op = "init"
  /\ useBotAuth' = SessionStartTools(entry, useBotAuth)
  /\ last' = Last("session_start", FALSE, NoError, <<>>, <<>>, <<>>, NoResult,
                  NoToolResult, "none", FALSE, NoInput)
  /\ UNCHANGED others
  /\ UNCHANGED << variant, stores, cachedToken, botToken, tokenAcquiredAt, now, entry,
                  sinceClear, cachedAt, cachedFor, botFor, resolved >>

Next ==
  \/ Tick
  \/ Spawn
  \/ ToggleSpawn
  \/ Setup
  \/ ResumeSpawn
  \/ GhTool
  \/ ToggleTools
  \/ ResumeTools

Spec == Init /\ [][Next]_vars

\* The bash spawnHook variant alone.
InitSpawn == Init /\ variant = "spawn"
NextSpawn == Tick \/ Spawn \/ ToggleSpawn \/ Setup \/ ResumeSpawn
SpecSpawn == InitSpawn /\ [][NextSpawn]_vars

\* The gh tools variant alone.
InitTools == Init /\ variant = "tools"
NextTools == Tick \/ GhTool \/ ToggleTools \/ ResumeTools
SpecTools == InitTools /\ [][NextTools]_vars

(***************************************************************************)
(* The credential resolver and the token issuer on their own, over a       *)
(* wider choice of stores.                                                 *)
(***************************************************************************)

EnvNotNumeric ==
  Env(EnvStr(<<"x">>), EnvStr(<<"1", "2">>), EnvStr(KeyA), EnvStr(<<"h">>), Unset)
EnvNoInstallId == Env(EnvStr(<<"1", "1">>), Unset, EnvStr(KeyA), Unset, Unset)
EnvLoose ==
  Env(EnvStr(<<" ", "1", "1", "x">>), EnvStr(<<"1", "2">>), EnvStr(KeyA), Unset,
      EnvStr(<<"a">>))
EnvEmptyStrings == Env(EnvStr(<<>>), EnvStr(<<>>), EnvStr(<<>>), Unset, Unset)
EnvZero == Env(EnvStr(<<"0">>), EnvStr(<<"0">>), EnvStr(KeyA), Unset, Unset)

AuthEnvs ==
  { EnvNone, EnvFull, EnvIdsOnly, EnvKeyOnly, EnvNotNumeric, EnvNoInstallId, EnvLoose,
    EnvEmptyStrings, EnvZero }

FileNoInstallId == FileObj(JNum(21), JUndef, JUndef, JUndef, JUndef)
FileStringAppId == FileObj(JStr(<<"2", "1">>), JNum(22), JUndef, JUndef, JUndef)
FileZeroInstallId == FileObj(JNum(21), JNum(0), JStr(<<"f">>), JUndef, JUndef)

AuthFiles ==
  { FileMissing, FileGarbage, FileJsonNull, FileFull, FileNoInstallId, FileStringAppId,
    FileZeroInstallId }

AuthKeychains == {KeychainEmpty, SetPrivateKey(KeyB), SetPrivateKey(KeyBad)}

InitAuth ==
  /\ variant = "auth"
  /\ env \in AuthEnvs
  /\ file \in AuthFiles
  /\ keychain \in AuthKeychains
  /\ cachedToken = NoToken
  /\ botToken = NoToken
  /\ tokenAcquiredAt = NoTime
  /\ useBotAuth = FALSE
  /\ now = TickMs
  /\ entry = "none"
  /\ sinceClear = NoCount
  /\ cachedAt = NoTime
  /\ cachedFor = NoCreds
  /\ botFor = NoCreds
  /\ resolved = NoResolved
  /\ last = NoLast
  /\ calls = [c \in Callers |-> NoCall]
  /\ SkillIdle
  /\ agentState = NoAgent

\* A caller resolves the credentials: readConfig() and getPrivateKey(), of
\* the version with environment variables and of the version without.
Resolve ==
  /\ resolved' = [NoResolved EXCEPT !.op = "resolve",
                                    !.config = ReadConfig(env, file),
                                    !.key = GetPrivateKey(env, keychain),
                                    !.configV1 = ReadConfigV1(file),
                                    !.keyV1 = KeychainRead(keychain),
                                    !.cacheBefore = cachedToken]
  /\ UNCHANGED others
  /\ UNCHANGED << variant, stores, cachedToken, botToken, tokenAcquiredAt, useBotAuth,
                  now, entry, last, sinceClear, cachedAt, cachedFor, botFor >>

\* A caller asks for a token: getInstallationToken().
Acquire ==
  /\ \E resp \in Responses :
       \E r \in {GetInstallationToken(cachedToken, env, file, keychain, now, resp)} :
           /\ cachedToken' = r.cache
           /\ resolved' = [NoResolved EXCEPT !.op = "acquire", !.fetch = r,
                                             !.resp = resp,
                                             !.cacheBefore = cachedToken]
  /\ UNCHANGED others
  /\ UNCHANGED << variant, stores, botToken, tokenAcquiredAt, useBotAuth, now, entry,
                  last, sinceClear, cachedAt, cachedFor, botFor >>

\* A caller clears the cache: clearTokenCache().
Clear ==
  /\ cachedToken' = ClearTokenCache
  /\ resolved' = [NoResolved EXCEPT !.op = "clear", !.cacheBefore = cachedToken]
  /\ UNCHANGED others
  /\ UNCHANGED << variant, stores, botToken, tokenAcquiredAt, useBotAuth, now, entry,
                  last, sinceClear, cachedAt, cachedFor, botFor >>

\* A caller stores a private key: setPrivateKey(privateKey).
Store ==
  /\ \E key \in Keys : keychain' = SetPrivateKey(key)
  /\ resolved' = [NoResolved EXCEPT !.op = "store", !.cacheBefore = cachedToken]
  /\ UNCHANGED others
  /\ UNCHANGED << variant, env, file, cachedToken, botToken, tokenAcquiredAt,
                  useBotAuth, now, entry, last, sinceClear, cachedAt, cachedFor, botFor >>

NextAuth == Resolve \/ Acquire \/ Clear \/ Store

SpecAuth == InitAuth /\ [][NextAuth]_vars

(***************************************************************************)
(* Properties.                                                             *)
(***************************************************************************)

\* The first run of gh by the last gh() call failed with an
\* authentication-failure stderr.
FirstRunAuthFailed ==
  /\ last.op = "gh"
  /\ Len(last.execs) >= 1
  /\ last.input.r1.code # 0
  /\ AuthPatternMatches(last.input.r1.stderr)

\* The first run of gh by the last gh() call failed for another reason.
FirstRunOtherFailure ==
  /\ last.op = "gh"
  /\ Len(last.execs) >= 1
  /\ last.input.r1.code # 0
  /\ ~AuthPatternMatches(last.input.r1.stderr)

\* C1 (SpecTools): once getInstallationToken() has returned a token, every
\* further request made before the next clearTokenCache() returns that same
\* token and sends no exchange request: one successful exchange in total.
C1_CachedTokenReused ==
  sinceClear.returned # {} =>
    /\ Cardinality(sinceClear.returned) = 1
    /\ sinceClear.okFetches = 1
    /\ sinceClear.lateFetches = 0
    /\ cachedToken \in sinceClear.returned

\* Two requests have returned a token since the last clearTokenCache().
C1_Witness == sinceClear.returns >= 2 /\ last.op = "gh"

\* C2 as claimed (Spec): a gh() call in bot mode that finds a cached
\* token older than 50 minutes sends exactly one exchange request.
C2_Original ==
  (last.op = "gh" /\ last.pre.useBot /\ last.pre.cache # NoToken
     /\ last.pre.cacheAge > TOKEN_REFRESH_MS /\ ~last.raised)
    => Len(last.requests) = 1

\* C2 as amended (Spec): a bash spawn with bot identity on and a token older
\* than 50 minutes clears the cache and makes one acquisition, sending at
\* most one exchange request (exactly one when the acquisition succeeds);
\* when it succeeds the process gets the newly issued token and the
\* timestamp is reset, when it fails the process gets the old token; a
\* spawn with a token of at most 50 minutes sends nothing and injects the
\* token it has. A gh() call in bot mode does not look at the age: it
\* starts gh with the cached token, whatever its age, without an exchange.
C2_SpawnRefreshesStaleToken ==
  /\ (last.op = "spawn" /\ last.pre.bot # NoToken) =>
       IF last.pre.age > TOKEN_REFRESH_MS
         THEN /\ Len(last.ev) = 2
              /\ last.ev[1].e = "clear"
              /\ last.ev[2].e = "token"
              /\ Len(last.requests) <= 1
              /\ Len(last.requests) = last.ev[2].net
              /\ last.ev[2].ok =>
                   /\ Len(last.requests) = 1
                   /\ last.execs = <<Exec(TRUE, last.ev[2].token)>>
                   /\ botToken = last.ev[2].token
                   /\ tokenAcquiredAt = now
              /\ ~last.ev[2].ok => last.execs = <<Exec(TRUE, last.pre.bot)>>
         ELSE /\ last.ev = <<>>
              /\ last.requests = <<>>
              /\ last.execs = <<Exec(TRUE, last.pre.bot)>>
  /\ (last.op = "gh" /\ last.pre.useBot /\ last.pre.cache # NoToken) =>
       /\ last.ev[1].e = "token"
       /\ last.ev[1].net = 0
       /\ last.ev[1].token = last.pre.cache
       /\ last.execs[1] = Exec(TRUE, last.pre.cache)

\* A spawn found a token older than 50 minutes and replaced it.
C2_Witness ==
  /\ last.op = "spawn"
  /\ last.pre.bot # NoToken
  /\ last.pre.age > TOKEN_REFRESH_MS
  /\ Len(last.requests) = 1
  /\ last.ev[2].ok
  /\ botToken = last.ev[2].token

\* C3 as claimed (SpecTools): after a first run that failed with an
\* authentication error, gh() has run gh exactly twice.
C3_Original ==
  (FirstRunAuthFailed /\ last.pre.useBot) => Len(last.execs) = 2

\* C3 as amended (SpecTools): in bot mode a first run that fails with an
\* authentication error makes gh() clear the cache and reacquire once; gh is
\* run a second time exactly when the reacquisition succeeds with a token
\* other than the failed one, with that token, and the second result is
\* returned as it is; otherwise gh is not run again (the first result is
\* returned, or the reacquisition's error is raised). No gh() call runs gh
\* more than twice.
C3_RetryAtMostOnce ==
  last.op = "gh" =>
    /\ Len(last.execs) <= 2
    /\ Len(last.execs) = 2 => FirstRunAuthFailed /\ last.pre.useBot
    /\ (FirstRunAuthFailed /\ last.pre.useBot) =>
         /\ Len(last.ev) = 3
         /\ last.ev[1].e = "token" /\ last.ev[2].e = "clear" /\ last.ev[3].e = "token"
         /\ last.ev[3].net <= 1
         /\ last.raised = ~last.ev[3].ok
         /\ IF last.ev[3].ok /\ last.ev[3].token # last.ev[1].token
              THEN /\ last.execs = <<Exec(TRUE, last.ev[1].token), Exec(TRUE, last.ev[3].token)>>
                   /\ last.ev[3].net = 1
                   /\ last.result = last.input.r2
              ELSE /\ last.execs = <<Exec(TRUE, last.ev[1].token)>>
                   /\ ~last.raised => last.result = last.input.r1

\* A retry whose second run failed with an authentication error as well.
C3_Witness ==
  /\ FirstRunAuthFailed
  /\ Len(last.execs) = 2
  /\ last.input.r2.code # 0
  /\ AuthPatternMatches(last.input.r2.stderr)
  /\ last.result = last.input.r2

\* C4 (SpecTools): a first run that fails with a stderr outside the
\* authentication pattern ends gh(): gh ran once, its result is returned
\* (the tool reports "Error: <stderr>"), the cache was not cleared and no
\* token was requested after the failure; so a second run only ever follows
\* an authentication failure.
C4_NoRetryOnOtherFailure ==
  /\ FirstRunOtherFailure =>
       /\ Len(last.execs) = 1
       /\ ~last.raised
       /\ last.result = last.input.r1
       /\ last.tool = [isError |-> TRUE, text |-> ErrorPrefix \o last.input.r1.stderr]
       /\ \A i \in 1..Len(last.ev) : last.ev[i].e # "clear"
       /\ Len(last.ev) <= 1
       /\ last.pre.cache # NoToken => cachedToken = last.pre.cache /\ last.requests = <<>>
  /\ (last.op = "gh" /\ Len(last.execs) > 1) =>
       last.input.r1.code # 0 /\ AuthPatternMatches(last.input.r1.stderr)

\* A non-authentication failure in bot mode.
C4_Witness == FirstRunOtherFailure /\ last.pre.useBot /\ last.pre.cache # NoToken

\* A string of decimal digits only.
AllDigits(v) == v # <<>> /\ \A i \in 1..Len(v) : IsDigit(v[i])

\* The environment holds the whole triple: both ids set and numeric, the
\* private key set.
EnvComplete(e) ==
  /\ e.appId.set /\ AllDigits(e.appId.v)
  /\ e.installId.set /\ AllDigits(e.installId.v)
  /\ e.key.set /\ e.key.v # <<>>

\* The environment provides no identity: an id is unset, empty or not a number.
EnvLacksIds(e) ==
  \/ ~e.appId.set \/ e.appId.v = <<>> \/ ParseInt(e.appId.v).nan
  \/ ~e.installId.set \/ e.installId.v = <<>> \/ ParseInt(e.installId.v).nan

\* The config file provides no identity: missing, unparsable, or without a
\* numeric appId.
FileLacksConfig(f) == f.kind \in {"missing", "garbage", "null"} \/ f.appId.t # "number"

\* C5 (SpecAuth): with the whole triple in the environment, readConfig and
\* getPrivateKey return the environment's values in every field, whatever
\* the config file and the Keychain hold.
C5_EnvironmentWins ==
  (resolved.op = "resolve" /\ EnvComplete(env)) =>
    /\ resolved.config =
         [kind |-> "config", src |-> "env",
          appId |-> DigitsValue(env.appId.v),
          installationId |-> OptNum(DigitsValue(env.installId.v)),
          human |-> EnvOpt(env.human), agent |-> EnvOpt(env.agent), repo |-> Undef]
    /\ resolved.key = [kind |-> "key", src |-> "env", v |-> env.key.v]

\* The resolver ran with credentials in the environment, the file and the Keychain.
C5_Witness ==
  /\ resolved.op = "resolve"
  /\ EnvComplete(env)
  /\ file = FileFull
  /\ keychain.present

\* C6 (SpecAuth): every exchange request is made with an identity and a
\* private key read from the same source.
C6_SingleSource ==
  \A i \in 1..Len(resolved.fetch.requests) :
    (resolved.fetch.requests[i].configSrc = "env")
      <=> (resolved.fetch.requests[i].keySrc = "env")

\* C7 (SpecAuth): readConfig and getPrivateKey never raise; readConfig returns
\* null when neither the environment nor the file provides an identity, and
\* getPrivateKey returns null when there is no key in the environment and
\* no Keychain entry (both versions of config.ts).
C7_NotConfiguredIsNull ==
  resolved.op = "resolve" =>
    /\ resolved.config.kind # "throw"
    /\ resolved.configV1.kind # "throw"
    /\ resolved.key.kind # "throw"
    /\ resolved.keyV1.kind # "throw"
    /\ (EnvLacksIds(env) /\ FileLacksConfig(file)) => resolved.config = NullConfig
    /\ FileLacksConfig(file) => resolved.configV1 = NullConfig
    /\ (~(env.key.set /\ env.key.v # <<>>) /\ ~keychain.present) => resolved.key = NullKey
    /\ ~keychain.present => resolved.keyV1 = NullKey

\* The resolver ran with nothing configured anywhere.
C7_Witness ==
  /\ resolved.op = "resolve"
  /\ EnvLacksIds(env)
  /\ file.kind = "garbage"
  /\ ~env.key.set
  /\ ~keychain.present
  /\ resolved.config = NullConfig

\* A part of the credentials is missing: no config, no installation id, or
\* no private key.
CredentialsMissing ==
  \/ ReadConfig(env, file).kind = "null"
  \/ ~ReadConfig(env, file).installationId.def
  \/ ReadConfig(env, file).installationId.n = 0
  \/ GetPrivateKey(env, keychain).kind = "null"

ConfigurationErrors == {"not-configured", "no-installation-id", "no-private-key"}

\* C8 (SpecAuth): with a part of the credentials missing, an acquisition on
\* an empty cache raises a configuration error, sends no exchange request
\* and leaves the cache empty.
C8_MissingCredentialsFailEarly ==
  (resolved.op = "acquire" /\ resolved.cacheBefore = NoToken /\ CredentialsMissing) =>
    /\ resolved.fetch.threw
    /\ resolved.fetch.err.kind \in ConfigurationErrors
    /\ resolved.fetch.requests = <<>>
    /\ cachedToken = NoToken

\* An acquisition was attempted without a private key.
C8_Witness ==
  /\ resolved.op = "acquire"
  /\ resolved.cacheBefore = NoToken
  /\ ReadConfig(env, file).kind = "config"
  /\ GetPrivateKey(env, keychain).kind = "null"
  /\ resolved.fetch.threw

\* C9 (SpecAuth): an acquisition sends at most one exchange request; when
\* the provider answers it with a non-2xx status the acquisition raises an
\* error carrying that status and body and the cache stays empty; the cache
\* is filled only with the token of a 2xx response.
C9_ExchangeFailureIsFatal ==
  resolved.op = "acquire" =>
    /\ Len(resolved.fetch.requests) <= 1
    /\ (Len(resolved.fetch.requests) = 1 /\ resolved.resp.kind = "http") =>
         /\ resolved.fetch.threw
         /\ resolved.fetch.err = ApiError(resolved.resp.status, resolved.resp.body)
         /\ cachedToken = NoToken
    /\ (resolved.cacheBefore = NoToken /\ cachedToken # NoToken) =>
         /\ resolved.resp.kind = "ok"
         /\ cachedToken = resolved.resp.token
         /\ Len(resolved.fetch.requests) = 1

\* The provider rejected an exchange.
C9_Witness ==
  /\ resolved.op = "acquire"
  /\ Len(resolved.fetch.requests) = 1
  /\ resolved.resp.kind = "http"
  /\ resolved.fetch.err.kind = "api"

\* C10 (SpecSpawn): after /gh-bot-setup has stored credentials, no token
\* issued for other credentials is still held, and a bash spawn never gets
\* a token issued for credentials other than the current ones.
C10_TokensFollowCredentials ==
  /\ (last.op = "gh-bot-setup" /\ last.saved) =>
       /\ botToken # NoToken => botFor = CurrentCreds(env, file, keychain)
       /\ cachedToken # NoToken => cachedFor = CurrentCreds(env, file, keychain)
  /\ (last.op = "spawn" /\ last.execs[1].injected) =>
       botFor = CurrentCreds(env, file, keychain)

\* C11 (SpecTools): a gh tool's execute never raises: whatever fails, it
\* returns a ToolResult, with isError set when gh did not exit 0.
C11_ToolReturnsStructuredFailure ==
  last.op = "gh" =>
    /\ ~last.raised
    /\ last.result.code # 0 => last.tool.isError

\* C12 (Spec): a process gets GH_TOKEN exactly when bot identity is on when
\* it is started (botToken set in the spawnHook variant, useBotAuth in the
\* gh tools variant), and then it is an installation token; with bot
\* identity off the process is started without GH_TOKEN, no token is
\* requested or exchanged and the cache is left alone.
C12_TokenInjectedIffBotActive ==
  /\ last.op = "spawn" =>
       /\ Len(last.execs) = 1
       /\ last.execs[1].injected <=> last.pre.bot # NoToken
       /\ last.execs[1].injected =>
            last.execs[1].token = botToken /\ last.execs[1].token \in Tokens
       /\ last.pre.bot = NoToken =>
            /\ last.execs = <<Exec(FALSE, NoToken)>>
            /\ last.ev = <<>>
            /\ last.requests = <<>>
            /\ cachedToken = last.pre.cache
  /\ last.op = "gh" =>
       /\ \A i \in 1..Len(last.execs) :
            /\ last.execs[i].injected <=> last.pre.useBot
            /\ last.execs[i].injected => last.execs[i].token \in Tokens
       /\ ~last.pre.useBot =>
            /\ last.execs = <<Exec(FALSE, NoToken)>>
            /\ last.ev = <<>>
            /\ last.requests = <<>>
            /\ cachedToken = last.pre.cache

\* With bot identity switched off again, gh ran without GH_TOKEN although a
\* token was still cached.
C12_Witness ==
  /\ last.op = "gh"
  /\ ~last.pre.useBot
  /\ last.pre.cache # NoToken
  /\ last.execs = <<Exec(FALSE, NoToken)>>

(***************************************************************************)
(* The token issuer with its awaits: a handler that calls                  *)
(* getInstallationToken() is suspended while readConfig / getPrivateKey    *)
(* read the stores and while fetch waits for the provider, and other       *)
(* handlers run in between.                                                *)
(***************************************************************************)

InitAsync ==
  /\ variant \in {"spawn", "tools"}
  /\ \E st \in InitStores : env = st[1] /\ file = st[2] /\ keychain = st[3]
  /\ cachedToken = NoToken
  /\ botToken = NoToken
  /\ tokenAcquiredAt = NoTime
  /\ useBotAuth = (variant = "tools")
  /\ now = TickMs
  /\ entry = "on"
  /\ sinceClear = NoCount
  /\ cachedAt = NoTime
  /\ cachedFor = NoCreds
  /\ botFor = NoCreds
  /\ resolved = NoResolved
  /\ last = NoLast
  /\ calls = [c \in Callers |-> NoCall]
  /\ SkillIdle
  /\ agentState = NoAgent

asyncFrame ==
  << variant, stores, useBotAuth, now, entry, last, sinceClear, cachedAt, cachedFor,
     botFor, resolved, agentState >>

\* A handler reaches its token request. gh() of the tools variant calls
\* getInstallationToken(), which returns the cached token at once or starts
\* fetchInstallationToken(); the handlers of the spawnHook variant call
\* clearTokenCache() first. Up to the first await nothing else runs.
BeginCall(c) ==
  /\ calls[c].pc = "idle"
  /\ IF variant = "spawn"
       THEN /\ cachedToken' = ClearTokenCache
            /\ calls' = [calls EXCEPT ![c] = [pc |-> "reading", token |-> NoToken]]
       ELSE /\ cachedToken' = cachedToken
            /\ calls' = [calls EXCEPT ![c] =
                           IF cachedToken # NoToken
                             THEN [pc |-> "done", token |-> cachedToken]
                             ELSE [pc |-> "reading", token |-> NoToken]]
  /\ UNCHANGED << asyncFrame, skillVars, botToken, tokenAcquiredAt >>

\* readConfig() and getPrivateKey() have resolved: fetchInstallationToken
\* throws on missing credentials, or signs the JWT and sends the request.
SendExchange(c) ==
  /\ calls[c].pc = "reading"
  /\ calls' = [calls EXCEPT ![c].pc =
                 IF FetchInstallationToken(env, file, keychain, now, RespNone).requests = <<>>
                   THEN "failed" ELSE "exchanging"]
  /\ UNCHANGED << asyncFrame, skillVars, cachedToken, botToken, tokenAcquiredAt >>

\* The provider answers (or fetch rejects): cachedToken = <token>, and in
\* the spawnHook variant botToken = <token>; tokenAcquiredAt = Date.now().
CompleteExchange(c) ==
  /\ calls[c].pc = "exchanging"
  /\ \E resp \in Responses :
       \E r \in {FetchInstallationToken(env, file, keychain, now, resp)} :
         IF r.threw
           THEN /\ calls' = [calls EXCEPT ![c].pc = "failed"]
                /\ UNCHANGED << cachedToken, botToken, tokenAcquiredAt >>
           ELSE /\ calls' = [calls EXCEPT ![c] = [pc |-> "done", token |-> r.token]]
                /\ cachedToken' = r.token
                /\ botToken' = IF variant = "spawn" THEN r.token ELSE botToken
                /\ tokenAcquiredAt' = IF variant = "spawn" THEN now ELSE tokenAcquiredAt
  /\ UNCHANGED << asyncFrame, skillVars >>

\* The handler returns.
ReturnCall(c) ==
  /\ calls[c].pc \in {"done", "failed"}
  /\ calls' = [calls EXCEPT ![c] = NoCall]
  /\ UNCHANGED << asyncFrame, skillVars, cachedToken, botToken, tokenAcquiredAt >>

NextAsync ==
  \E c \in Callers :
    BeginCall(c) \/ SendExchange(c) \/ CompleteExchange(c) \/ ReturnCall(c)

SpecAsync == InitAsync /\ [][NextAsync]_vars

\* C13 (SpecAsync): at no time are two token exchanges in flight.
C13_OneExchangeInFlight ==
  Cardinality({c \in Callers : calls[c].pc = "exchanging"}) <= 1

\* What a Keychain read of a stored key returns.
FromKeychain(key) == [kind |-> "key", src |-> "keychain", v |-> key]

\* C14 (SpecAuth), original statement: after setPrivateKey(key),
\* getPrivateKey() returns key whatever the environment holds.
C14_Original ==
  \A key \in Keys :
    resolved.op = "resolve" /\ keychain = SetPrivateKey(key) =>
      resolved.key.v = key /\ resolved.keyV1.v = key

\* C14 (SpecAuth): after setPrivateKey(key), the Keychain read path returns
\* exactly key, trailing newlines included: getPrivateKey() of the version
\* without environment variables always, and of the version with them
\* when GH_BOT_PRIVATE_KEY is unset or empty. With GH_BOT_PRIVATE_KEY set,
\* getPrivateKey() returns that variable's value, whatever was stored.
C14_KeychainRoundTrip ==
  \A key \in Keys :
    resolved.op = "resolve" /\ keychain = SetPrivateKey(key) =>
      /\ resolved.keyV1 = FromKeychain(key)
      /\ resolved.key = IF Truthy(env.key)
                          THEN [kind |-> "key", src |-> "env", v |-> env.key.v]
                          ELSE FromKeychain(key)

C14_Witness ==
  /\ resolved.op = "resolve"
  /\ keychain = SetPrivateKey(KeyA)
  /\ ~Truthy(env.key)
  /\ resolved.key = FromKeychain(KeyA)

(***************************************************************************)
(* The skill-model extension (pi-extensions/skill-model/index.ts) and its  *)
(* effort-aware version: min-effort of run-* skills selects the model and  *)
(* the thinking level.                                                     *)
(***************************************************************************)

\* String.prototype.startsWith
StartsWith(s, pat) == Len(s) >= Len(pat) /\ SubSeq(s, 1, Len(pat)) = pat

\* s.slice(n)
Drop(s, n) == SubSeq(s, n + 1, Len(s))

\* String.prototype.split("\n")
RECURSIVE SplitLines(_)
SplitLines(s) ==
  IF IndexOf("\n", s) = 0 THEN <<s>>
  ELSE <<SubSeq(s, 1, IndexOf("\n", s) - 1)>> \o SplitLines(Drop(s, IndexOf("\n", s)))

\* EFFORT_MAP of the two versions.
EFFORT_MAP(version) ==
  IF version = "skill-model"
    THEN [e \in 0..3 |->
            [modelSubstring |-> "sonnet",
             thinking |-> <<"off", "low", "medium", "high">>[e + 1]]]
    ELSE [e \in 0..3 |->
            [modelSubstring |-> <<"sonnet", "sonnet", "opus", "opus">>[e + 1],
             thinking |-> <<"off", "low", "minimal", "medium">>[e + 1]]]

MAX_EFFORT == 3

Dashes == <<"-", "-", "-">>
FmOpen == Dashes \o <<"\n">>
FmClose == <<"\n">> \o Dashes

\* content.match(/^---\n([\s\S]*?)\n---/): the text between the opening
\* line and the first "\n---" after it.
FrontmatterEnds(content) ==
  {p \in (Len(FmOpen) + 1)..(Len(content) - Len(FmClose) + 1) :
     SubSeq(content, p, p + Len(FmClose) - 1) = FmClose}

FrontmatterMatch(content) ==
  IF StartsWith(content, FmOpen) /\ FrontmatterEnds(content) # {}
    THEN [match |-> TRUE,
          body |-> SubSeq(content, Len(FmOpen) + 1,
                          (CHOOSE p \in FrontmatterEnds(content) :
                             \A q \in FrontmatterEnds(content) : p <= q) - 1)]
    ELSE [match |-> FALSE, body |-> <<>>]

\* The loop body of parseFrontmatter: a line with a colon after its first
\* character is a key and a value, both trimmed.
RECURSIVE FrontmatterLines(_)
FrontmatterLines(lines) ==
  IF lines = <<>> THEN <<>>
  ELSE (IF IndexOf(":", Head(lines)) > 1
          THEN << [key |-> Trim(SubSeq(Head(lines), 1, IndexOf(":", Head(lines)) - 1)),
                   value |-> Trim(Drop(Head(lines), IndexOf(":", Head(lines))))] >>
          ELSE <<>>) \o FrontmatterLines(Tail(lines))

\* parseFrontmatter: the key/value assignments in order (a later
\* assignment to a key overwrites an earlier one).
ParseFrontmatter(content) ==
  Bind(FrontmatterMatch(content), LAMBDA m :
    IF ~m.match THEN <<>> ELSE FrontmatterLines(SplitLines(m.body)))

MinEffortKey == <<"m", "i", "n", "-", "e", "f", "f", "o", "r", "t">>

NullEffort == [null |-> TRUE, n |-> 0]

\* getMinEffort without the range test.
GetMinEffortUnchecked(content) ==
  Bind(ParseFrontmatter(content), LAMBDA fm :
  Bind({i \in 1..Len(fm) : fm[i].key = MinEffortKey}, LAMBDA at :
    IF at = {} THEN NullEffort
    ELSE Bind(ParseInt(fm[CHOOSE i \in at : \A j \in at : j <= i].value), LAMBDA n :
           IF n.nan THEN NullEffort ELSE [null |-> FALSE, n |-> n.n])))

\* getMinEffort: null, or a number in 0..MAX_EFFORT.
GetMinEffort(content) ==
  Bind(ParseFrontmatter(content), LAMBDA fm :
  Bind({i \in 1..Len(fm) : fm[i].key = MinEffortKey}, LAMBDA at :
    IF at = {} THEN NullEffort
    ELSE Bind(ParseInt(fm[CHOOSE i \in at : \A j \in at : j <= i].value), LAMBDA n :
           IF n.nan \/ n.n < 0 \/ n.n > MAX_EFFORT THEN NullEffort
           ELSE [null |-> FALSE, n |-> n.n])))

\* [a-z0-9-]
IsNameChar(c) == c = "-" \/ IsDigit(c) \/ (Ord(c) >= 97 /\ Ord(c) <= 122)

\* The longest run of [a-z0-9-] at the start of s.
RECURSIVE NamePrefix(_)
NamePrefix(s) ==
  IF s # <<>> /\ IsNameChar(Head(s)) THEN <<Head(s)>> \o NamePrefix(Tail(s)) ELSE <<>>

SkillCommand == <<"/", "s", "k", "i", "l", "l", ":">>
RunPrefix == <<"r", "u", "n", "-">>
SkillsDir == <<"s", "k", "i", "l", "l", "s", "/">>
SkillFile == <<"/", "S", "K", "I", "L", "L", ".", "m", "d">>

\* event.text.matchAll(/\/skill:([a-z0-9-]+)/g): the names captured.
RECURSIVE SkillMatches(_)
SkillMatches(text) ==
  IF Len(text) <= Len(SkillCommand) THEN <<>>
  ELSE IF StartsWith(text, SkillCommand)
            /\ NamePrefix(Drop(text, Len(SkillCommand))) # <<>>
    THEN <<NamePrefix(Drop(text, Len(SkillCommand)))>>
           \o SkillMatches(Drop(text, Len(SkillCommand)
                                        + Len(NamePrefix(Drop(text, Len(SkillCommand))))))
    ELSE SkillMatches(Tail(text))

\* The path pattern matches at position i: prefix, "run-", at least one
\* name character, "/SKILL.md" (and, anchored, the end of the path).
PathMatchesAt(p, i, prefix, anchored) ==
  /\ StartsWith(Drop(p, i - 1), prefix \o RunPrefix)
  /\ \E rest \in {Drop(p, i - 1 + Len(prefix) + Len(RunPrefix))} :
       \E name \in {NamePrefix(rest)} :
         /\ name # <<>>
         /\ StartsWith(Drop(rest, Len(name)), SkillFile)
         /\ anchored => Len(rest) = Len(name) + Len(SkillFile)

\* input.path.match(/skills\/(run-[a-z0-9-]+)\/SKILL\.md/), and of the
\* effort-aware version input.path.match(/\/(run-[a-z0-9-]+)\/SKILL\.md$/).
PathMatches(version, p) ==
  \E i \in 1..Len(p) :
    IF version = "skill-model"
      THEN PathMatchesAt(p, i, SkillsDir, FALSE)
      ELSE PathMatchesAt(p, i, <<"/">>, TRUE)

\* The name of the read tool each version tests for.
ReadTool(version) == IF version = "skill-model" THEN "read" ELSE "Read"

(* The skills of the model and the text of each SKILL.md. *)
Line(key, value) == key \o <<":", " ">> \o value \o <<"\n">>
NameLine == Line(<<"n", "a", "m", "e">>, <<"s">>)
Frontmatter(lines) == FmOpen \o lines \o Dashes \o <<"\n">>

RunA == RunPrefix \o <<"a">>
RunB == RunPrefix \o <<"b">>
RunC == RunPrefix \o <<"c">>
RunN == RunPrefix \o <<"n">>
RunK == RunPrefix \o <<"k">>
RunO == RunPrefix \o <<"o">>
PrefsX == <<"p", "r", "e", "f", "s", "-", "x">>
RunZ == RunPrefix \o <<"z">>

\* The skills with a SKILL.md (RunZ is a name without one).
SkillNames == {RunA, RunB, RunC, RunN, RunK, RunO, PrefsX}

SkillText ==
  [n \in SkillNames |->
     IF n = RunA THEN Frontmatter(NameLine \o Line(MinEffortKey, <<"1">>))
     ELSE IF n = RunB THEN Frontmatter(Line(MinEffortKey, <<"3">>) \o NameLine)
     ELSE IF n = RunC THEN Frontmatter(Line(MinEffortKey, <<"0">>))
     ELSE IF n = RunN THEN <<"#", " ", "R", "\n">> \o Line(MinEffortKey, <<"2">>)
     ELSE IF n = RunK
       THEN Frontmatter(NameLine) \o <<"\n">> \o Frontmatter(Line(MinEffortKey, <<"2">>))
     ELSE IF n = RunO THEN Frontmatter(Line(MinEffortKey, <<"5">>))
     ELSE Frontmatter(Line(MinEffortKey, <<"3">>))]

\* getMinEffort of each SKILL.md, computed once.
SkillEffort == [n \in SkillNames |-> GetMinEffort(SkillText[n])]

\* Where the host found the skills: under ./skills of the working
\* directory, or in a system directory.
SkillPath(home, name) ==
  (IF home = "cwd" THEN <<>> ELSE <<"/", "h", "/">>) \o SkillsDir \o name \o SkillFile

\* fs.readFile(path, "utf-8"): the text, or a rejection.
ReadFile(home, p) ==
  IF \E n \in SkillNames : SkillPath(home, n) = p
    THEN [ok |-> TRUE, name |-> CHOOSE n \in SkillNames : SkillPath(home, n) = p]
    ELSE [ok |-> FALSE, name |-> <<>>]

\* The state the handlers read and write.
World ==
  [version |-> variant, home |-> session.home, registry |-> session.registry,
   maxEffort |-> maxEffort, applied |-> applied, model |-> session.model,
   thinking |-> session.thinking, setModel |-> prompt.setModel,
   setThinking |-> prompt.setThinking, inForce |-> prompt.inForce, seen |-> prompt.seen]

\* applyEffort that sets the thinking level only together with the model.
ApplyEffortModelOnly(effort, w) ==
  IF effort \notin DOMAIN EFFORT_MAP(w.version) THEN w
  ELSE Bind(EFFORT_MAP(w.version)[effort], LAMBDA mapping :
         IF mapping.modelSubstring \notin w.registry THEN [w EXCEPT !.applied = TRUE]
         ELSE [w EXCEPT !.model = mapping.modelSubstring,
                        !.setModel = @ + 1,
                        !.thinking = mapping.thinking,
                        !.setThinking = @ + 1,
                        !.inForce = effort,
                        !.applied = TRUE])

\* applyEffort(effort, ctx)
ApplyEffort(effort, w) ==
  IF effort \notin DOMAIN EFFORT_MAP(w.version) THEN w
  ELSE Bind(EFFORT_MAP(w.version)[effort], LAMBDA mapping :
         [w EXCEPT !.model = IF mapping.modelSubstring \in w.registry
                               THEN mapping.modelSubstring ELSE @,
                   !.setModel = IF mapping.modelSubstring \in w.registry THEN @ + 1 ELSE @,
                   !.thinking = mapping.thinking,
                   !.setThinking = @ + 1,
                   !.inForce = effort,
                   !.applied = TRUE])

\* if (effort != null && effort > maxEffort) maxEffort = effort
TrackEffort(effort, w) ==
  IF effort.null THEN w
  ELSE [w EXCEPT !.seen = @ \cup {effort.n},
                 !.maxEffort = IF effort.n > @ THEN effort.n ELSE @]

\* Every skill name counts as a run-* skill.
IsRunSkillAny(skillName) == skillName = skillName

\* skillName.startsWith("run-")
IsRunSkill(skillName) == StartsWith(skillName, RunPrefix)

\* The path the input handler reads: skills/<name>/SKILL.md relative to
\* the working directory, or in the effort-aware version the path of the
\* host's command skill:<name>, if there is one.
InputSkillPath(w, skillName) ==
  IF w.version = "skill-model"
    THEN [found |-> TRUE, path |-> SkillPath("cwd", skillName)]
    ELSE [found |-> skillName \in SkillNames, path |-> SkillPath(w.home, skillName)]

\* One round of the loop of the input handler.
InputStep(skillName, w) ==
  IF ~IsRunSkill(skillName) THEN w
  ELSE Bind(InputSkillPath(w, skillName), LAMBDA p :
         IF ~p.found THEN w
         ELSE Bind(ReadFile(w.home, p.path), LAMBDA f :
                IF ~f.ok THEN w ELSE TrackEffort(SkillEffort[f.name], w)))

RECURSIVE InputLoop(_, _)
InputLoop(names, w) ==
  IF names = <<>> THEN w ELSE InputLoop(Tail(names), InputStep(Head(names), w))

\* pi.on("input", ...)
OnInput(text, w) == InputLoop(SkillMatches(text), w)

\* pi.on("tool_result", ...)
OnToolResult(toolName, p, w) ==
  IF toolName # ReadTool(w.version) THEN w
  ELSE IF p = <<>> THEN w
  ELSE IF ~PathMatches(w.version, p) THEN w
  ELSE Bind(ReadFile(w.home, p), LAMBDA f :
         IF ~f.ok THEN w
         ELSE Bind(SkillEffort[f.name], LAMBDA effort :
                IF ~effort.null /\ effort.n > w.maxEffort
                  THEN ApplyEffort(effort.n, TrackEffort(effort, w))
                  ELSE TrackEffort(effort, w)))

\* pi.on("before_agent_start", ...)
OnBeforeAgentStart(w) ==
  IF w.maxEffort >= 0 /\ ~w.applied THEN ApplyEffort(w.maxEffort, w) ELSE w

\* agent_end without the reset of maxEffort.
OnAgentEndKeep(w) == [w EXCEPT !.applied = FALSE]

\* pi.on("agent_end", ...)
OnAgentEnd(w) == [w EXCEPT !.maxEffort = NoEffort, !.applied = FALSE]

\* The handler's effect on the extension, the session and the observation.
SkillEffect(after, p) ==
  \E w \in {after} :
    /\ maxEffort' = w.maxEffort
    /\ applied' = w.applied
    /\ session' = [session EXCEPT !.model = w.model, !.thinking = w.thinking]
    /\ prompt' = [p EXCEPT !.seen = w.seen, !.setModel = w.setModel,
                           !.setThinking = w.setThinking, !.inForce = w.inForce]

botVars ==
  << variant, stores, cachedToken, botToken, tokenAcquiredAt, useBotAuth, now, entry,
     last, sinceClear, cachedAt, cachedFor, botFor, resolved, calls, agentState >>

\* Number of tool results in one prompt.
MaxReads == 2

\* The text of a prompt that names the given skills.
RECURSIVE PromptText(_)
PromptText(names) ==
  IF names = <<>> THEN <<"g", "o">>
  ELSE SkillCommand \o Head(names) \o <<" ">> \o PromptText(Tail(names))

\* The skills the prompts of the model name, in the order of the text.
Mentions ==
  { <<>>, <<RunA>>, <<RunB>>, <<RunC>>, <<RunA, RunB>>, <<RunB, RunC>>, <<PrefsX>>,
    <<RunN, RunK>>, <<RunO, PrefsX>>, <<RunZ>>, <<PrefsX, RunA>> }

InitSkill ==
  /\ variant \in {"skill-model", "effort-aware"}
  /\ env = EnvNone /\ file = FileMissing /\ keychain = KeychainEmpty
  /\ cachedToken = NoToken
  /\ botToken = NoToken
  /\ tokenAcquiredAt = NoTime
  /\ useBotAuth = FALSE
  /\ now = TickMs
  /\ entry = "none"
  /\ sinceClear = NoCount
  /\ cachedAt = NoTime
  /\ cachedFor = NoCreds
  /\ botFor = NoCreds
  /\ resolved = NoResolved
  /\ last = NoLast
  /\ calls = [c \in Callers |-> NoCall]
  /\ maxEffort = NoEffort
  /\ applied = FALSE
  /\ \E registry \in {{}, {"sonnet"}, {"sonnet", "opus"}}, home \in {"cwd", "system"} :
       session = [NoSession EXCEPT !.registry = registry, !.home = home]
  /\ prompt = NoPrompt
  /\ agentState = NoAgent

\* The user sends a prompt: the input event.
Input ==
  /\ prompt.phase = "idle"
  /\ \E names \in Mentions :
       SkillEffect(
         OnInput(PromptText(names),
                 [World EXCEPT !.seen = {}, !.setModel = 0, !.setThinking = 0,
                               !.inForce = NoEffort]),
         [prompt EXCEPT !.phase = "input", !.reads = 0,
                        !.loaded = {names[i] : i \in 1..Len(names)},
                        !.start = [model |-> session.model, thinking |-> session.thinking]])
  /\ UNCHANGED botVars

\* The host is about to start the agent.
BeforeAgentStart ==
  /\ prompt.phase = "input"
  /\ SkillEffect(OnBeforeAgentStart(World), [prompt EXCEPT !.phase = "running"])
  /\ UNCHANGED botVars

\* A tool of the running agent returns; when the tool is the read tool and
\* the file a SKILL.md, the agent has loaded that skill.
ToolResult ==
  /\ prompt.phase = "running"
  /\ prompt.reads < MaxReads
  /\ \E toolName \in {"read", "Read"}, name \in SkillNames :
       SkillEffect(
         OnToolResult(toolName, SkillPath(session.home, name), World),
         [prompt EXCEPT !.reads = @ + 1,
                        !.loaded = IF toolName = ReadTool(variant)
                                     THEN @ \cup {name} ELSE @])
  /\ UNCHANGED botVars

\* The agent has finished the prompt.
AgentEnd ==
  /\ prompt.phase = "running"
  /\ SkillEffect(OnAgentEnd(World),
                 [prompt EXCEPT !.phase = "idle",
                                !.prev = prompt.inForce])
  /\ UNCHANGED botVars

NextSkill == Input \/ BeforeAgentStart \/ ToolResult \/ AgentEnd

SpecSkill == InitSkill /\ [][NextSkill]_vars

\* The min-effort each skill declares in its frontmatter (none for a skill
\* that declares no valid one, or that is no run-* skill).
Declared ==
  [n \in SkillNames \cup {RunZ} |->
     IF n = RunA THEN 1 ELSE IF n = RunB THEN 3 ELSE IF n = RunC THEN 0 ELSE NoEffort]

\* The efforts declared by the run-* skills loaded in this prompt.
LoadedEfforts == {Declared[n] : n \in prompt.loaded} \ {NoEffort}

MaxOf(S) == CHOOSE e \in S : \A f \in S : f <= e

\* C15 (SpecSkill): while the agent runs, the effort applied is the maximum
\* min-effort of the run-* skills loaded in this prompt.
C15_MaxEffortInForce ==
  prompt.phase = "running" /\ LoadedEfforts # {} =>
    /\ prompt.inForce = MaxOf(LoadedEfforts)
    /\ session.thinking = EFFORT_MAP(variant)[MaxOf(LoadedEfforts)].thinking

\* C16 (SpecSkill): agent_end resets the tracking: between prompts
\* maxEffort is -1 and applied is false; a prompt that loads no run-* skill
\* calls neither setModel nor setThinkingLevel; and while the agent runs
\* the effort applied is the maximum of the min-efforts the handlers read
\* in this prompt, also when the previous prompt ran at a higher effort.
C16_EffortResetsAfterPrompt ==
  /\ prompt.phase = "idle" => maxEffort = NoEffort /\ ~applied
  /\ (\A n \in prompt.loaded : ~StartsWith(n, RunPrefix)) =>
       prompt.setModel = 0 /\ prompt.setThinking = 0
  /\ prompt.phase = "running" /\ prompt.seen # {} =>
       /\ maxEffort = MaxOf(prompt.seen)
       /\ prompt.inForce = MaxOf(prompt.seen)
       /\ session.thinking = EFFORT_MAP(variant)[MaxOf(prompt.seen)].thinking

C16_Witness ==
  /\ prompt.phase = "running"
  /\ prompt.prev = 3
  /\ prompt.seen = {0}
  /\ prompt.inForce = 0
  /\ session.thinking = "off"

AgentToken == <<"g", "h", "p", "_", "a">>
UserToken == <<"g", "h", "o", "_", "u">>

\* "GH_AGENT_TOKEN environment variable not set"
TokenNotSet ==
  << "G", "H", "_", "A", "G", "E", "N", "T", "_", "T", "O", "K", "E", "N", " ",
     "n", "o", "t", " ", "s", "e", "t" >>

\* "Invalid repo format. Use owner/name"
InvalidRepo == <<"I", "n", "v", "a", "l", "i", "d", " ", "r", "e", "p", "o">>

\* The environment of a gh process: { ...process.env, GH_TOKEN: token }.
AgentExecEnv(ambient, token) == [GH_TOKEN |-> EnvStr(token)]

\* ghAgent that runs gh with the ambient environment when no agent token
\* is set.
GhAgentFallback(ambient, token, result) ==
  [execs |-> <<[GH_TOKEN |-> IF Truthy(token) THEN EnvStr(token.v) ELSE ambient]>>,
   result |-> result]

\* ghAgent(pi, args, signal); result is what gh answers if it is run.
GhAgent(ambient, token, result) ==
  IF ~Truthy(token)
    THEN [execs |-> <<>>, result |-> ExecResult(1, <<>>, TokenNotSet)]
    ELSE [execs |-> <<AgentExecEnv(ambient, token.v)>>, result |-> result]

\* parseRepo(repo) is not null: repo.split("/") has two parts.
ParseRepoOk(repo) == Cardinality({i \in 1..Len(repo) : repo[i] = "/"}) = 1

RepoOk == <<"o", "/", "n">>
Repos == {RepoOk, <<"n">>, <<"o", "/", "n", "/", "x">>}

AgentToolNames == {"gh_issue_list", "gh_issue_read", "gh_pr_diff"}

AgentOutcome(execs, tool) == [execs |-> execs, tool |-> tool]

\* execute of gh_issue_list (the repo is validated first), of gh_issue_read
\* (a second run fetches the comments, and its failure is ignored) and of
\* the tools that run gh once, such as gh_pr_diff.
AgentTool(name, repo, ambient, token, r1, r2) ==
  IF name = "gh_issue_list" /\ ~ParseRepoOk(repo)
    THEN AgentOutcome(<<>>, [isError |-> TRUE, text |-> InvalidRepo])
  ELSE Bind(GhAgent(ambient, token, r1), LAMBDA g1 :
    IF g1.result.code # 0 THEN AgentOutcome(g1.execs, GhResult(g1.result))
    ELSE IF name # "gh_issue_read" THEN AgentOutcome(g1.execs, GhResult(g1.result))
    ELSE Bind(GhAgent(ambient, token, r2), LAMBDA g2 :
           AgentOutcome(g1.execs \o g2.execs,
                        [isError |-> FALSE,
                         text |-> g1.result.stdout
                                    \o (IF g2.result.code = 0 THEN g2.result.stdout
                                        ELSE <<>>)])))

gateFrame ==
  << variant, stores, cachedToken, botToken, tokenAcquiredAt, useBotAuth, now, entry,
     last, sinceClear, cachedAt, cachedFor, botFor, resolved, calls, skillVars >>

InitAgent ==
  /\ variant = "gh-agent-token"
  /\ env = EnvNone /\ file = FileMissing /\ keychain = KeychainEmpty
  /\ cachedToken = NoToken
  /\ botToken = NoToken
  /\ tokenAcquiredAt = NoTime
  /\ useBotAuth = FALSE
  /\ now = TickMs
  /\ entry = "none"
  /\ sinceClear = NoCount
  /\ cachedAt = NoTime
  /\ cachedFor = NoCreds
  /\ botFor = NoCreds
  /\ resolved = NoResolved
  /\ last = NoLast
  /\ calls = [c \in Callers |-> NoCall]
  /\ SkillIdle
  /\ \E ambient \in {Unset, EnvStr(UserToken)},
        token \in {Unset, EnvStr(<<>>), EnvStr(AgentToken)} :
       agentState = [NoAgent EXCEPT !.ambient = ambient, !.token = token]

\* The agent calls one of the GitHub tools.
AgentToolCall ==
  /\ \E name \in AgentToolNames, repo \in Repos, r1 \in ExecResults, r2 \in ExecResults :
       \E o \in {AgentTool(name, repo, agentState.ambient, agentState.token, r1, r2)} :
         agentState' = [agentState EXCEPT !.last =
                     [op |-> "tool", name |-> name, repo |-> repo, r1 |-> r1, r2 |-> r2,
                      execs |-> o.execs, tool |-> o.tool]]
  /\ UNCHANGED gateFrame

NextAgent == AgentToolCall

SpecAgent == InitAgent /\ [][NextAgent]_vars

\* C18 (SpecAgent): a tool of the GH_AGENT_TOKEN variant runs gh only with
\* GH_TOKEN set to GH_AGENT_TOKEN; without GH_AGENT_TOKEN it runs nothing
\* and returns an error.
C18_OnlyAgentToken ==
  agentState.last.op = "tool" =>
    /\ ~Truthy(agentState.token) => agentState.last.execs = <<>> /\ agentState.last.tool.isError
    /\ \A i \in 1..Len(agentState.last.execs) :
         /\ Truthy(agentState.token)
         /\ agentState.last.execs[i].GH_TOKEN = EnvStr(agentState.token.v)

C18_Witness ==
  /\ agentState.last.op = "tool"
  /\ agentState.ambient = EnvStr(UserToken)
  /\ agentState.token = EnvStr(AgentToken)
  /\ agentState.last.execs = <<[GH_TOKEN |-> EnvStr(AgentToken)], [GH_TOKEN |-> EnvStr(AgentToken)]>>

\* The argument of the last /gh-bot command, as the handler compares it.
LastArg == NormalizeArg(last.input.args)

\* The last /gh-bot command of the spawnHook variant asked for the bot.
WantsOn == LastArg = ArgOn \/ (LastArg = <<>> /\ last.pre.bot = NoToken)

\* C19 (Spec): the bot identity is off until a command or a resumed
\* session turns it on. In the gh tools variant "/gh-bot on" sets it,
\* "/gh-bot off" clears it and "/gh-bot" flips it. In the spawnHook variant
\* "/gh-bot off", and "/gh-bot" while on, turn it off and append an "off"
\* entry; "/gh-bot on", and "/gh-bot" while off, either turn it on with a
\* token just issued for an existing config and append an "on" entry, or
\* leave botToken, tokenAcquiredAt and the session entries as they were.
C19_ToggleCommand ==
  /\ last.op = "init" => botToken = NoToken /\ ~useBotAuth
  /\ last.op = "gh-bot" /\ variant = "tools" =>
       /\ LastArg = ArgOn => useBotAuth
       /\ LastArg = ArgOff => ~useBotAuth
       /\ LastArg = <<>> => useBotAuth = ~last.pre.useBot
       /\ entry = IF useBotAuth THEN "on" ELSE "off"
  /\ last.op = "gh-bot" /\ variant = "spawn" =>
       /\ LastArg = ArgOff \/ (LastArg = <<>> /\ last.pre.bot # NoToken) =>
            /\ botToken = NoToken
            /\ tokenAcquiredAt = NoTime
            /\ last.appended = "off" /\ entry = "off"
       /\ WantsOn =>
            \/ /\ botToken \in Tokens
               /\ botToken = cachedToken
               /\ tokenAcquiredAt = now
               /\ Len(last.requests) = 1
               /\ ReadConfig(env, file).kind = "config"
               /\ last.appended = "on" /\ entry = "on"
            \/ /\ botToken = last.pre.bot
               /\ tokenAcquiredAt = last.pre.at
               /\ last.appended = "none" /\ entry = last.pre.entry
               /\ \/ ReadConfig(env, file).kind # "config" /\ last.requests = <<>>
                  \/ last.err # NoError

C19_Witness ==
  /\ last.op = "gh-bot" /\ variant = "spawn"
  /\ LastArg = ArgOn
  /\ last.pre.bot # NoToken
  /\ Len(last.requests) = 1
  /\ last.err # NoError
  /\ botToken = last.pre.bot
  /\ last.appended = "none"

(***************************************************************************)
(* The sandbox tools of gh-agent (--gh-only): tmp_read, tmp_write,         *)
(* tmp_list and tmp_exec. Paths are POSIX path strings.                    *)
(***************************************************************************)

\* p.split("/")
RECURSIVE SplitPath(_)
SplitPath(p) ==
  IF IndexOf("/", p) = 0 THEN <<p>>
  ELSE <<SubSeq(p, 1, IndexOf("/", p) - 1)>> \o SplitPath(Drop(p, IndexOf("/", p)))

\* The segments of a normalized absolute path: empty and "." segments are
\* dropped, ".." removes the segment before it (none at the root).
RECURSIVE NormalizeSegments(_, _)
NormalizeSegments(segs, acc) ==
  IF segs = <<>> THEN acc
  ELSE IF Head(segs) = <<>> \/ Head(segs) = <<".">>
    THEN NormalizeSegments(Tail(segs), acc)
  ELSE IF Head(segs) = <<".", ".">>
    THEN NormalizeSegments(Tail(segs),
                           IF acc = <<>> THEN acc ELSE SubSeq(acc, 1, Len(acc) - 1))
  ELSE NormalizeSegments(Tail(segs), Append(acc, Head(segs)))

RECURSIVE JoinSegments(_)
JoinSegments(segs) ==
  IF segs = <<>> THEN <<>> ELSE <<"/">> \o Head(segs) \o JoinSegments(Tail(segs))

JoinPath(segs) == IF segs = <<>> THEN <<"/">> ELSE JoinSegments(segs)

\* path.resolve(base, rel) for an absolute base.
PathResolve(base, rel) ==
  JoinPath(NormalizeSegments(
             SplitPath(IF rel # <<>> /\ Head(rel) = "/" THEN rel ELSE base \o <<"/">> \o rel),
             <<>>))

\* path.dirname(p) of a normalized absolute path.
PathDirname(p) ==
  Bind(NormalizeSegments(SplitPath(p), <<>>), LAMBDA segs :
    IF segs = <<>> THEN <<"/">> ELSE JoinPath(SubSeq(segs, 1, Len(segs) - 1)))

\* The directory fs.mkdtemp made under os.tmpdir().
Sandbox == <<"/", "t", "/", "s">>

\* A directory outside the sandbox, and the symbolic link to it that a
\* command run in the sandbox root (or a cloned repository) can leave there.
Outside == <<"/", "e">>
SandboxLink == Sandbox \o <<"/", "l">>

NullPath == [null |-> TRUE, path |-> <<>>]

\* resolveSandboxPath(sandbox, relativePath)
ResolveSandboxPath(sandbox, relativePath) ==
  Bind(PathResolve(sandbox, relativePath), LAMBDA target :
    IF ~StartsWith(target, sandbox \o <<"/">>) /\ target # sandbox
      THEN NullPath
      ELSE [null |-> FALSE, path |-> target])

\* Where the operating system ends up when it opens p: a symbolic link on
\* the way is followed.
RealPath(links, p) ==
  IF \E l \in links : p = l \/ StartsWith(p, l \o <<"/">>)
    THEN Outside \o Drop(p, Len(CHOOSE l \in links : p = l \/ StartsWith(p, l \o <<"/">>)))
    ELSE p

Access(links, op, p) == [op |-> op, path |-> p, real |-> RealPath(links, p)]

TmpOutcome(rejected, isError, accesses) ==
  [rejected |-> rejected, isError |-> isError, accesses |-> accesses]

\* sandboxError("Path escapes sandbox")
Escapes == TmpOutcome(TRUE, TRUE, <<>>)

\* execute of tmp_read; failed is whether fs.readFile rejects.
TmpRead(links, p, failed) ==
  Bind(ResolveSandboxPath(Sandbox, p), LAMBDA target :
    IF target.null THEN Escapes
    ELSE TmpOutcome(FALSE, failed, <<Access(links, "readFile", target.path)>>))

\* execute of tmp_write: mkdir of the parent directory, then writeFile
\* (which fails on the sandbox directory itself).
TmpWrite(links, p, failed) ==
  Bind(ResolveSandboxPath(Sandbox, p), LAMBDA target :
    IF target.null THEN Escapes
    ELSE TmpOutcome(FALSE, failed \/ target.path = Sandbox,
                    << Access(links, "mkdir", PathDirname(target.path)),
                       Access(links, "writeFile", target.path) >>))

\* execute of tmp_list: params.path ?? "."
TmpList(links, p, failed) ==
  Bind(ResolveSandboxPath(Sandbox, IF p.def THEN p.v ELSE <<".">>), LAMBDA target :
    IF target.null THEN Escapes
    ELSE TmpOutcome(FALSE, failed, <<Access(links, "readdir", target.path)>>))

\* execute of tmp_exec: bash -c <command> with cwd the sandbox, or
\* params.cwd resolved when it is given and not empty.
TmpExec(links, cwd, failed) ==
  IF cwd.def /\ cwd.v # <<>>
    THEN Bind(ResolveSandboxPath(Sandbox, cwd.v), LAMBDA target :
           IF target.null THEN Escapes
           ELSE TmpOutcome(FALSE, failed, <<Access(links, "exec", target.path)>>))
    ELSE TmpOutcome(FALSE, failed, <<Access(links, "exec", Sandbox)>>)

\* Path arguments of the model.
TmpPaths ==
  { <<"a">>, <<"a", "/", "b">>, <<".">>, <<>>, <<".", ".">>, <<".", ".", "/", "x">>,
    <<"a", "/", ".", ".", "/", ".", ".">>, <<"a", "/", ".", ".", "/", "b">>,
    Outside, Sandbox, Sandbox \o <<"/", "a">>, Sandbox \o <<"2">>,
    <<"l">>, <<"l", "/", "p">> }

\* The arguments that name a location outside the sandbox.
OutsidePaths ==
  { <<".", ".">>, <<".", ".", "/", "x">>, <<"a", "/", ".", ".", "/", ".", ".">>,
    Outside, Sandbox \o <<"2">> }

sandboxFrame ==
  << variant, stores, cachedToken, botToken, tokenAcquiredAt, useBotAuth, now, entry,
     last, sinceClear, cachedAt, cachedFor, botFor, resolved, calls, skillVars >>

InitSandbox ==
  /\ variant = "gh-agent-sandbox"
  /\ env = EnvNone /\ file = FileMissing /\ keychain = KeychainEmpty
  /\ cachedToken = NoToken
  /\ botToken = NoToken
  /\ tokenAcquiredAt = NoTime
  /\ useBotAuth = FALSE
  /\ now = TickMs
  /\ entry = "none"
  /\ sinceClear = NoCount
  /\ cachedAt = NoTime
  /\ cachedFor = NoCreds
  /\ botFor = NoCreds
  /\ resolved = NoResolved
  /\ last = NoLast
  /\ calls = [c \in Callers |-> NoCall]
  /\ SkillIdle
  /\ agentState = NoAgent

TmpLast(tool, arg, o) ==
  [op |-> "tmp", tool |-> tool, arg |-> arg, rejected |-> o.rejected,
   isError |-> o.isError, accesses |-> o.accesses]

TmpReadCall ==
  /\ \E p \in TmpPaths, failed \in BOOLEAN :
       agentState' = [agentState EXCEPT !.last =
                        TmpLast("tmp_read", OptStr(p), TmpRead(agentState.links, p, failed))]
  /\ UNCHANGED sandboxFrame

TmpWriteCall ==
  /\ \E p \in TmpPaths, failed \in BOOLEAN :
       agentState' = [agentState EXCEPT !.last =
                        TmpLast("tmp_write", OptStr(p), TmpWrite(agentState.links, p, failed))]
  /\ UNCHANGED sandboxFrame

TmpListCall ==
  /\ \E p \in {OptStr(q) : q \in TmpPaths} \cup {Undef}, failed \in BOOLEAN :
       agentState' = [agentState EXCEPT !.last =
                        TmpLast("tmp_list", p, TmpList(agentState.links, p, failed))]
  /\ UNCHANGED sandboxFrame

\* tmp_exec; the command either leaves the sandbox as it is or makes the
\* symbolic link (ln -s /e l), which lands in the sandbox root when that
\* is the working directory.
TmpExecCall ==
  /\ \E cwd \in {OptStr(q) : q \in TmpPaths} \cup {Undef}, failed \in BOOLEAN,
        command \in {"ls", "ln"} :
       \E o \in {TmpExec(agentState.links, cwd, failed)} :
         agentState' =
           [agentState EXCEPT
              !.last = TmpLast("tmp_exec", cwd, o),
              !.links = IF command = "ln" /\ ~o.rejected /\ ~failed
                           /\ o.accesses[1].real = Sandbox
                          THEN @ \cup {SandboxLink} ELSE @]
  /\ UNCHANGED sandboxFrame

NextSandbox == TmpReadCall \/ TmpWriteCall \/ TmpListCall \/ TmpExecCall

SpecSandbox == InitSandbox /\ [][NextSandbox]_vars

\* The location is the sandbox root or lies beneath it.
InSandbox(p) == p = Sandbox \/ StartsWith(p, Sandbox \o <<"/">>)

\* C20 (SpecSandbox): the sandbox tools touch the file system, and start
\* processes, only at the sandbox root or beneath it, and an argument that
\* names a location outside is rejected without any access.
C20_SandboxContainment ==
  agentState.last.op = "tmp" =>
    /\ \A i \in 1..Len(agentState.last.accesses) :
         InSandbox(agentState.last.accesses[i].real)
    /\ agentState.last.arg.def /\ agentState.last.arg.v \in OutsidePaths =>
         /\ agentState.last.rejected
         /\ agentState.last.isError
         /\ agentState.last.accesses = <<>>

(***************************************************************************)
(* applyEffort on its own: any effort value, any session.                  *)
(***************************************************************************)

\* The largest effort value handed to applyEffort.
MaxAsked == 4

InitEffort ==
  /\ variant \in {"skill-model", "effort-aware"}
  /\ env = EnvNone /\ file = FileMissing /\ keychain = KeychainEmpty
  /\ cachedToken = NoToken
  /\ botToken = NoToken
  /\ tokenAcquiredAt = NoTime
  /\ useBotAuth = FALSE
  /\ now = TickMs
  /\ entry = "none"
  /\ sinceClear = NoCount
  /\ cachedAt = NoTime
  /\ cachedFor = NoCreds
  /\ botFor = NoCreds
  /\ resolved = NoResolved
  /\ last = NoLast
  /\ calls = [c \in Callers |-> NoCall]
  /\ maxEffort = NoEffort
  /\ applied = FALSE
  /\ \E registry \in {{}, {"sonnet"}, {"sonnet", "opus"}} :
       session = [NoSession EXCEPT !.registry = registry]
  /\ prompt = NoPrompt
  /\ agentState = NoAgent

\* A caller applies an effort: applyEffort(effort, ctx).
Apply ==
  /\ \E effort \in NoEffort..MaxAsked :
       SkillEffect(
         ApplyEffort(effort, [World EXCEPT !.setModel = 0, !.setThinking = 0,
                                           !.inForce = NoEffort]),
         [prompt EXCEPT !.phase = "apply", !.asked = effort,
                        !.start = [model |-> session.model, thinking |-> session.thinking]])
  /\ UNCHANGED botVars

\* agent_end between two applications.
ApplyReset ==
  /\ prompt.phase = "apply"
  /\ SkillEffect(OnAgentEnd(World), [prompt EXCEPT !.phase = "idle"])
  /\ UNCHANGED botVars

NextEffort == Apply \/ ApplyReset

SpecEffort == InitEffort /\ [][NextEffort]_vars

\* The table of the effort-aware README: model and thinking level of the
\* efforts 0 to 3.
DocumentedEffort ==
  << [model |-> "sonnet", thinking |-> "off"], [model |-> "sonnet", thinking |-> "low"],
     [model |-> "opus", thinking |-> "minimal"], [model |-> "opus", thinking |-> "medium"] >>

\* C21 (SpecEffort): in the effort-aware version applyEffort(e) for e in 0..3
\* sets the thinking level of the documented table, also when the registry
\* has no matching model, and sets the documented model when the registry
\* has it; for any other e it calls nothing and changes nothing.
C21_EffortTable ==
  prompt.phase = "apply" /\ variant = "effort-aware" =>
    IF prompt.asked \in 0..3
      THEN /\ session.thinking = DocumentedEffort[prompt.asked + 1].thinking
           /\ prompt.setThinking = 1
           /\ prompt.inForce = prompt.asked
           /\ applied
           /\ IF DocumentedEffort[prompt.asked + 1].model \in session.registry
                THEN session.model = DocumentedEffort[prompt.asked + 1].model
                       /\ prompt.setModel = 1
                ELSE session.model = prompt.start.model /\ prompt.setModel = 0
      ELSE /\ prompt.setModel = 0
           /\ prompt.setThinking = 0
           /\ prompt.inForce = NoEffort
           /\ session.model = prompt.start.model
           /\ session.thinking = prompt.start.thinking

C21_Witness ==
  /\ prompt.phase = "apply" /\ variant = "effort-aware"
  /\ prompt.asked = 2
  /\ session.registry = {"sonnet"}
  /\ session.thinking = "minimal"
  /\ prompt.setModel = 0

(***************************************************************************)
(* The retry of gh() and the token it reacquired.                          *)
(***************************************************************************)

\* The last gh() call, in bot mode, saw its first run fail with an
\* authentication error and reacquired a token.
Reacquired ==
  /\ FirstRunAuthFailed
  /\ last.pre.useBot
  /\ Len(last.ev) = 3
  /\ last.ev[3].e = "token"
  /\ last.ev[3].ok

\* C22 (SpecTools): after an authentication failure and a successful
\* reacquisition gh is run again exactly when the reacquired token differs
\* from the failed one; with the same token value gh ran once, the first
\* result is returned without an error raised, and the cache holds the
\* reacquired token.
C22_RetryOnlyWithNewToken ==
  Reacquired =>
    /\ ~last.raised
    /\ cachedToken = last.ev[3].token
    /\ (Len(last.execs) = 2) = (last.ev[3].token # last.execs[1].token)
    /\ last.ev[3].token = last.execs[1].token =>
         /\ last.execs = <<Exec(TRUE, last.ev[1].token)>>
         /\ last.result = last.input.r1
         /\ last.tool = GhResult(last.input.r1)
         /\ last.ev[3].net = 1

\* The token exchange handed out the value that had just failed.
C22_Witness ==
  /\ Reacquired
  /\ last.ev[3].token = last.execs[1].token
  /\ last.ev[3].net = 1
  /\ Len(last.execs) = 1
  /\ cachedToken = last.ev[3].token

(***************************************************************************)
(* A spawn whose proactive refresh fails.                                  *)
(***************************************************************************)

\* The last spawn found a stale bot token and its refresh failed.
SpawnRefreshFailed ==
  /\ last.op = "spawn"
  /\ last.pre.bot # NoToken
  /\ IsTokenStale(last.pre.at, now)
  /\ Len(last.ev) = 2
  /\ ~last.ev[2].ok

\* The times at which a later spawn can run.
LaterTimes == {now + n * TickMs : n \in 0..MaxTicks}

\* C23 (Spec): a spawn whose refresh of a stale bot token fails does not
\* raise, leaves botToken and tokenAcquiredAt as they were and starts the
\* process with the old token as GH_TOKEN; the token is then still stale,
\* so a spawn that follows, now or later and whatever the provider answers,
\* clears the cache and asks for a token again.
C23_FailedRefreshKeepsToken ==
  SpawnRefreshFailed =>
    /\ ~last.raised
    /\ last.err # NoError
    /\ botToken = last.pre.bot
    /\ tokenAcquiredAt = last.pre.at
    /\ last.execs = <<Exec(TRUE, last.pre.bot)>>
    /\ IsTokenStale(tokenAcquiredAt, now)
    /\ \A t \in LaterTimes, resp \in Responses :
         \E o \in {SpawnHook(botToken, tokenAcquiredAt, cachedToken, env, file,
                             keychain, t, resp)} :
           /\ Len(o.ev) = 2
           /\ o.ev[1] = ClearEvent
           /\ o.ev[2].e = "token"
           /\ ~o.raised

\* The exchange of a refresh got no answer and the process still got the
\* old token.
C23_Witness ==
  /\ SpawnRefreshFailed
  /\ last.err.kind = "network"
  /\ Len(last.requests) = 1
  /\ last.execs = <<Exec(TRUE, botToken)>>

====
